---- MODULE Spec2Model ----
(***************************************************************************)
(* A model of the pci-driver crate: regions and subregions                 *)
(* (src/src/regions.rs, src/src/backends/vfio/regions.rs), owning and      *)
(* mapped regions (src/src/regions.rs, src/src/backends/vfio/mod.rs) and   *)
(* the structured register / bit-field layer                               *)
(* (src/src/regions/structured.rs, src/src/regions/bit_field_macros.rs).   *)
(*                                                                         *)
(* u64 offsets are modelled modulo 2^U64Bits.  Rust integer overflow       *)
(* panics when the build has overflow checks (debug) and wraps otherwise   *)
(* (release); the variable overflowChecks says which build runs.           *)
(* An access through a pointer or file offset that left the region is      *)
(* undefined or unspecified behaviour: the model offers every outcome of   *)
(* a small set (arbitrary data, a crash, an I/O error) and flags it "oob". *)
(*                                                                         *)
(* Record constructors list their fields in the order in which TLC keeps   *)
(* them, so that a record shared between TLC workers is never re-sorted.   *)
(***************************************************************************)
EXTENDS Integers, Sequences, FiniteSets, TLC

(* ------------------------------------------------------------------ *)
(* Bounds of the model                                                  *)
(* ------------------------------------------------------------------ *)

\* width of the modelled u64 (offsets, lengths), in bits
U64Bits == 4

\* length in bytes of the root region (a BAR, config space, a byte slice)
RootLen == 4

\* how deep subregion() calls are nested on one view before it is rebuilt
MaxDepth == 2

\* how many OwningPciRegion handles are alive at once
MaxOwning == 2

\* how many MappedOwningPciRegion values are created in one run
MaxMappings == 2

\* how many WriteTyped calls are made on the region in one run
MaxWrites == 1

U64Mod == 2 ^ U64Bits
U64Max == U64Mod - 1

VARIABLES
    overflowChecks, \* TRUE: debug build (overflow panics); FALSE: release (wraps)
    region,         \* the root PciRegion: [kind, length, permissions, is_mappable]
    mem,            \* the bytes behind the root region
    writes,         \* number of WriteTyped calls made so far
    view,           \* a PciSubregion of the root: [offset, length]
    recording,      \* TRUE: hist records the subregion() calls made on the root's view
    hist,           \* the ranges of the recorded subregion() calls that led to view
    own,            \* an OwningPciRegion: [offset, length], or NoOwning
    ownLive,        \* number of OwningPciRegion handles alive
    last            \* what the last call did

regionVars == <<overflowChecks, region, mem, writes, view, recording, hist, own, ownLive, last>>

VARIABLES
    deviceLive,     \* the VfioPciDevice value is alive (it holds the Arc of the inner device)
    mappings,       \* the MappedOwningPciRegion values created so far, in order
    unmapLog,       \* the region_unmap calls made so far: <<ptr, length>> each
    fileOpen        \* the device file (Arc<File>) has not been closed

mapVars == <<deviceLive, mappings, unmapLog, fileOpen>>

VARIABLES
    regDef,         \* the register definition (a pci_bit_field! invocation) in use
    reg,            \* the offset of the register in the root region
    regLog          \* the last accessor call: its result and the register accesses it made

regVars == <<regDef, reg, regLog>>

VARIABLES
    config,         \* the configuration space a capability scan runs on: [len, bytes]
    scan            \* the capability scan: where it stands, what it read and found

capVars == <<config, scan>>

VARIABLES
    container       \* the last VfioContainer construction: kernel requests and result

containerVars == <<container>>

VARIABLES
    walk            \* a lookup in the capability chain of the kernel's geometry reply

walkVars == <<walk>>

VARIABLES
    threads         \* the threads writing fields of the register, each at its step

threadVars == <<threads>>

\* the state outside the regions of one device
hostVars == <<capVars, containerVars, walkVars, threadVars>>

vars == <<regionVars, mapVars, regVars, hostVars>>

(* ------------------------------------------------------------------ *)
(* Helpers                                                              *)
(* ------------------------------------------------------------------ *)

Min(a, b) == IF a <= b THEN a ELSE b
Max(a, b) == IF a >= b THEN a ELSE b

\* a + b on u64: the wrapped value and whether it overflowed
AddU64(a, b) == [ovf |-> a + b > U64Max, val |-> (a + b) % U64Mod]

NoOwning == [offset |-> 0 - 1, length |-> 0 - 1]
NoAddr == 0 - 1

Included(b) == [b |-> b, kind |-> "Included"]
Excluded(b) == [b |-> b, kind |-> "Excluded"]
Unbounded == [b |-> 0, kind |-> "Unbounded"]

\* a value implementing RangeBounds<u64>
RangeOf(s, e) == [start |-> s, end |-> e]

(* ------------------------------------------------------------------ *)
(* regions.rs: clamp_range, subregion, as_subregion                     *)
(* ------------------------------------------------------------------ *)

\* clamp_range without the clamp of `end` to max_length (a faulty variant)
clamp_range_end_unclamped(range, max_length) ==
    LET s == CASE range.start.kind = "Included" -> [ovf |-> FALSE, val |-> range.start.b]
               [] range.start.kind = "Excluded" -> AddU64(range.start.b, 1)
               [] OTHER -> [ovf |-> FALSE, val |-> 0]
        e == CASE range.end.kind = "Included" -> AddU64(range.end.b, 1)
               [] range.end.kind = "Excluded" -> [ovf |-> FALSE, val |-> range.end.b]
               [] OTHER -> [ovf |-> FALSE, val |-> max_length]
    IN  IF overflowChecks /\ (s.ovf \/ e.ovf)
        THEN [start |-> 0, end |-> 0, panic |-> TRUE]
        ELSE [start |-> Min(s.val, max_length),
              end |-> Max(e.val, s.val),
              panic |-> FALSE]

\* fn clamp_range(range, max_length) -> Range<u64>
clamp_range(range, max_length) ==
    LET s == CASE range.start.kind = "Included" -> [ovf |-> FALSE, val |-> range.start.b]
               [] range.start.kind = "Excluded" -> AddU64(range.start.b, 1)
               [] OTHER -> [ovf |-> FALSE, val |-> 0]
        e == CASE range.end.kind = "Included" -> AddU64(range.end.b, 1)
               [] range.end.kind = "Excluded" -> [ovf |-> FALSE, val |-> range.end.b]
               [] OTHER -> [ovf |-> FALSE, val |-> max_length]
    IN  IF overflowChecks /\ (s.ovf \/ e.ovf)
        THEN [start |-> 0, end |-> 0, panic |-> TRUE]
        ELSE [start |-> Min(s.val, max_length),
              end |-> Min(Max(e.val, s.val), max_length),
              panic |-> FALSE]

\* subregion() that forgets the offset of the view it is taken from (a faulty variant)
subregion_offset_dropped(v, range) ==
    LET c == clamp_range(range, v.length)
    IN  IF c.panic
        THEN [offset |-> 0, length |-> 0, panic |-> TRUE]
        ELSE [offset |-> c.start, length |-> c.end - c.start, panic |-> FALSE]

\* AsPciSubregion::subregion applied to the PciSubregion v
subregion(v, range) ==
    LET c == clamp_range(range, v.length)
        o == AddU64(v.offset, c.start)
    IN  IF c.panic \/ (overflowChecks /\ o.ovf)
        THEN [offset |-> 0, length |-> 0, panic |-> TRUE]
        ELSE [offset |-> o.val, length |-> c.end - c.start, panic |-> FALSE]

\* <&dyn PciRegion as AsPciSubregion>::as_subregion of the root region
RootView == [offset |-> 0, length |-> region.length]

\* OwningPciRegion::owning_subregion
owning_subregion(o, range) ==
    LET c == clamp_range(range, o.length)
        f == AddU64(o.offset, c.start)
    IN  IF c.panic \/ (overflowChecks /\ f.ovf)
        THEN [offset |-> 0, length |-> 0, panic |-> TRUE]
        ELSE [offset |-> f.val, length |-> c.end - c.start, panic |-> FALSE]

\* <&OwningPciRegion as AsPciSubregion>::as_subregion
owning_as_subregion(o) ==
    LET e == AddU64(o.offset, o.length)
    IN  IF overflowChecks /\ e.ovf
        THEN [offset |-> 0, length |-> 0, panic |-> TRUE]
        ELSE subregion(RootView, RangeOf(Included(o.offset), Excluded(e.val)))

(* ------------------------------------------------------------------ *)
(* Bytes and little-endian values                                       *)
(* ------------------------------------------------------------------ *)

\* value.to_le() stored to memory / to_le_bytes(): the bytes, lowest first
to_le_bytes(value, size) == [i \in 1..size |-> (value \div (256 ^ (i - 1))) % 256]

RECURSIVE from_le_bytes(_)
\* u16::from_le / u32::from_le_bytes of the bytes read
from_le_bytes(bytes) ==
    IF Len(bytes) = 0 THEN 0
    ELSE bytes[1] + 256 * from_le_bytes(Tail(bytes))

\* the bytes of memory m at [addr, addr + n)
BytesAt(m, addr, n) == [i \in 1..n |-> m[addr + i - 1]]

\* memory m with bytes stored at addr
StoreAt(m, addr, bytes) ==
    [a \in DOMAIN m |-> IF a >= addr /\ a < addr + Len(bytes) THEN bytes[a - addr + 1] ELSE m[a]]

\* what an access outside the region may read: some byte the region does not hold
UbBytes == {0, 255}

(* ------------------------------------------------------------------ *)
(* Outcomes of an access                                                *)
(*   st   "Ok" | "Err" | "Panic" | "Crash"                              *)
(*   err  "None" | "OutOfBounds" | "Unaligned" | "TooBig" | "Io" (all   *)
(*        but Io have ErrorKind::InvalidInput in the code)              *)
(*   data bytes read, oob: bytes outside the region were touched,       *)
(*   fwd  address a subregion forwarded to its root, mem: memory after  *)
(* ------------------------------------------------------------------ *)

Outcome(st, err, data, oob, m) ==
    [mem |-> m, st |-> st, err |-> err, data |-> data, oob |-> oob, fwd |-> NoAddr]

Failed(st, err, m) == Outcome(st, err, <<>>, FALSE, m)

IsRead(op) == op \in {"read_bytes", "read_u8", "read_le_u16", "read_le_u32"}

\* mem::size_of::<T>() of the typed accessors
SizeOf(op) ==
    CASE op \in {"read_u8", "write_u8"} -> 1
      [] op \in {"read_le_u16", "write_le_u16"} -> 2
      [] op \in {"read_le_u32", "write_le_u32"} -> 4
      [] OTHER -> 0

(* ------------------------------------------------------------------ *)
(* regions.rs: PciMemoryRegion                                          *)
(* ------------------------------------------------------------------ *)

\* PciMemoryRegion::get_ptr::<T>(offset), size = size_of::<T>()
get_ptr(size, offset) ==
    LET sum == AddU64(offset, size)
    IN  IF overflowChecks /\ sum.ovf THEN [st |-> "Panic", err |-> "None", ptr |-> 0]
        ELSE IF sum.val > region.length THEN [st |-> "Err", err |-> "OutOfBounds", ptr |-> 0]
        ELSE IF offset % size # 0 THEN [st |-> "Err", err |-> "Unaligned", ptr |-> 0]
        ELSE [st |-> "Ok", err |-> "None", ptr |-> offset]

\* PciMemoryRegion::read_u8 / read_le_u16 / read_le_u32: get_ptr, read_volatile, from_le
memory_read(size, offset, m) ==
    LET p == get_ptr(size, offset)
    IN  IF p.st # "Ok" THEN {Failed(p.st, p.err, m)}
        ELSE IF p.ptr + size <= region.length
        THEN {Outcome("Ok", "None", BytesAt(m, p.ptr, size), FALSE, m)}
        ELSE {Outcome("Ok", "None", [i \in 1..size |-> u], TRUE, m) : u \in UbBytes}
             \cup {Outcome("Crash", "None", <<>>, TRUE, m)}

\* PciMemoryRegion::write_u8 / write_le_u16 / write_le_u32: get_ptr, to_le, write_volatile
memory_write(size, offset, value, m) ==
    LET p == get_ptr(size, offset)
    IN  IF p.st # "Ok" THEN {Failed(p.st, p.err, m)}
        ELSE IF p.ptr + size <= region.length
        THEN {Outcome("Ok", "None", <<>>, FALSE, StoreAt(m, p.ptr, to_le_bytes(value, size)))}
        ELSE {Outcome("Ok", "None", <<>>, TRUE, m), Outcome("Crash", "None", <<>>, TRUE, m)}

\* the loop of PciMemoryRegion::read_bytes: byte i comes from get_ptr::<u8>(offset + i)
memory_read_bytes_loop(offset, n, m) ==
    LET off(i) == (offset + i - 1) % U64Mod
        g(i) == get_ptr(1, off(i))
        bad == {i \in 1..n : g(i).st # "Ok"}
        stop == IF bad = {} THEN n + 1 ELSE CHOOSE i \in bad : \A j \in bad : i <= j
        wild == {i \in 1..(stop - 1) : off(i) >= region.length}
        done(u) == IF stop <= n
                   THEN Outcome(g(stop).st, g(stop).err, <<>>, wild # {}, m)
                   ELSE Outcome("Ok", "None",
                                [i \in 1..n |-> IF i \in wild THEN u ELSE m[off(i)]],
                                wild # {}, m)
    IN  IF wild = {} THEN {done(0)}
        ELSE {done(u) : u \in UbBytes} \cup {Outcome("Crash", "None", <<>>, TRUE, m)}

\* PciMemoryRegion::read_bytes
memory_read_bytes(offset, n, m) ==
    LET end == AddU64(offset, n)
    IN  IF overflowChecks /\ end.ovf THEN {Failed("Panic", "None", m)}
        ELSE IF end.val > region.length THEN {Failed("Err", "OutOfBounds", m)}
        ELSE memory_read_bytes_loop(offset, n, m)

(* ------------------------------------------------------------------ *)
(* backends/vfio/regions.rs: VfioUnmappedPciRegion                      *)
(* ------------------------------------------------------------------ *)

\* VfioUnmappedPciRegion::validate_access(required_alignment, offset, length)
vfio_validate_access(required_alignment, offset, length) ==
    LET end == AddU64(offset, length)
    IN  IF overflowChecks /\ end.ovf THEN [st |-> "Panic", err |-> "None"]
        ELSE IF end.val > region.length THEN [st |-> "Err", err |-> "OutOfBounds"]
        ELSE IF offset % required_alignment # 0 \/ length % required_alignment # 0
        THEN [st |-> "Err", err |-> "Unaligned"]
        ELSE [st |-> "Ok", err |-> "None"]

\* VfioUnmappedPciRegion::read: validate_access, then read_exact_at on the device file
vfio_read(required_alignment, offset, n, m) ==
    LET v == vfio_validate_access(required_alignment, offset, n)
        at == AddU64(region.offset_in_device_file, offset)
    IN  IF v.st # "Ok" THEN {Failed(v.st, v.err, m)}
        ELSE IF overflowChecks /\ at.ovf THEN {Failed("Panic", "None", m)}
        ELSE IF offset + n <= region.length
        THEN {Outcome("Ok", "None", BytesAt(m, offset, n), FALSE, m)}
        ELSE {Outcome("Ok", "None", [i \in 1..n |-> u], TRUE, m) : u \in UbBytes}
             \cup {Outcome("Err", "Io", <<>>, TRUE, m)}

\* VfioUnmappedPciRegion::write: validate_access, then write_all_at on the device file
vfio_write(required_alignment, offset, bytes, m) ==
    LET v == vfio_validate_access(required_alignment, offset, Len(bytes))
        at == AddU64(region.offset_in_device_file, offset)
    IN  IF v.st # "Ok" THEN {Failed(v.st, v.err, m)}
        ELSE IF overflowChecks /\ at.ovf THEN {Failed("Panic", "None", m)}
        ELSE IF offset + Len(bytes) <= region.length
        THEN {Outcome("Ok", "None", <<>>, FALSE, StoreAt(m, offset, bytes))}
        ELSE {Outcome("Ok", "None", <<>>, TRUE, m), Outcome("Err", "Io", <<>>, TRUE, m)}

(* ------------------------------------------------------------------ *)
(* The PciRegion methods of the root region and of a PciSubregion       *)
(* ------------------------------------------------------------------ *)

\* impl PciRegion for PciMemoryRegion / for VfioUnmappedPciRegion: op at offset;
\* n is the buffer length of read_bytes, value the value of a write
root_access(op, offset, n, value, m) ==
    IF region.kind = "memory"
    THEN CASE op = "read_bytes" -> memory_read_bytes(offset, n, m)
           [] IsRead(op) -> memory_read(SizeOf(op), offset, m)
           [] OTHER -> memory_write(SizeOf(op), offset, value, m)
    ELSE CASE op = "read_bytes" -> vfio_read(1, offset, n, m)
           [] IsRead(op) -> vfio_read(SizeOf(op), offset, SizeOf(op), m)
           [] OTHER -> vfio_write(SizeOf(op), offset, to_le_bytes(value, SizeOf(op)), m)

\* PciSubregion::validate_access(offset, len)
validate_access(v, offset, len) ==
    LET sum == AddU64(offset, len)
    IN  IF overflowChecks /\ sum.ovf THEN [st |-> "Panic", err |-> "None"]
        ELSE IF sum.val > v.length THEN [st |-> "Err", err |-> "OutOfBounds"]
        ELSE [st |-> "Ok", err |-> "None"]

\* a subregion that forwards the caller's offset to the root unchanged (a faulty variant)
subregion_access_offset_dropped(v, op, offset, n, value, m) ==
    LET len == IF op = "read_bytes" THEN n ELSE SizeOf(op)
        c == validate_access(v, offset, len)
    IN  IF c.st # "Ok" THEN {Failed(c.st, c.err, m)}
        ELSE {[r EXCEPT !.fwd = offset] : r \in root_access(op, offset, n, value, m)}

\* impl PciRegion for T: AsPciSubregion: validate_access, then the same method of
\* the underlying region at subregion.offset + offset
subregion_access(v, op, offset, n, value, m) ==
    LET len == IF op = "read_bytes" THEN n ELSE SizeOf(op)
        c == validate_access(v, offset, len)
        at == AddU64(v.offset, offset)
    IN  IF c.st # "Ok" THEN {Failed(c.st, c.err, m)}
        ELSE IF overflowChecks /\ at.ovf THEN {Failed("Panic", "None", m)}
        ELSE {[r EXCEPT !.fwd = at.val] : r \in root_access(op, at.val, n, value, m)}

(* ------------------------------------------------------------------ *)
(* Initial states                                                       *)
(* ------------------------------------------------------------------ *)

Kinds == {"memory", "vfio"}
AllPermissions == {"Read", "Write", "ReadWrite"}

\* a root region of the given kind; a VFIO region lies at offset_in_device_file of
\* the device file (vfio_region_info.offset), a memory region at its pointer
NewRegion(kind, permissions, is_mappable) ==
    [length |-> RootLen, kind |-> kind,
     offset_in_device_file |-> IF kind = "vfio" THEN U64Mod \div 2 ELSE 0,
     permissions |-> permissions, is_mappable |-> is_mappable]

\* OwningPciRegion::new: offset 0, length region.len()
OwningNew == [offset |-> 0, length |-> region.length]

\* the record kept of a call: its arguments (via: the region it was made on) and
\* what it did
Call(op, st) ==
    [offset |-> 0, range |-> RangeOf(Unbounded, Unbounded), value |-> 0, n |-> 0,
     st |-> st, err |-> "None", data |-> <<>>, oob |-> FALSE, fwd |-> NoAddr,
     op |-> op, via |-> "none", wrote |-> <<>>, requested |-> FALSE]

InitMem == [a \in 0..(RootLen - 1) |-> 17 * (a + 1)]

\* no register is in use
NoRegister == [name |-> "none", mode |-> "RO", bits |-> 8, elems |-> <<>>, WRITE_MASK |-> 0]

InitRegion(kinds, perms, mappable, rec) ==
    /\ overflowChecks \in BOOLEAN
    /\ recording = rec
    /\ region \in {NewRegion(k, p, f) : k \in kinds, p \in perms, f \in mappable}
    /\ mem = InitMem
    /\ writes = 0
    /\ view = RootView
    /\ hist = <<>>
    /\ own = OwningNew
    /\ ownLive = 1
    /\ last = Call("init", "Ok")

InitMapIdle ==
    /\ deviceLive = TRUE
    /\ mappings = <<>>
    /\ unmapLog = <<>>
    /\ fileOpen = TRUE

InitRegIdle ==
    /\ regDef = NoRegister
    /\ reg = 0
    /\ regLog = [value |-> 0, st |-> "Ok", err |-> "None", op |-> "init", field |-> 0,
                 ret |-> 0, acc |-> <<>>]

(* ------------------------------------------------------------------ *)
(* Views: subregion(), owning_subregion(), as_subregion()               *)
(* ------------------------------------------------------------------ *)

\* the ranges handed to subregion(), owning_subregion() and map()
Ranges ==
    { RangeOf(Unbounded, Unbounded),
      RangeOf(Included(1), Excluded(3)),
      RangeOf(Included(1), Unbounded),
      RangeOf(Unbounded, Included(1)),
      RangeOf(Included(3), Excluded(1)),
      RangeOf(Included(2), Excluded(RootLen + 2)),
      RangeOf(Included(RootLen + 1), Included(U64Max)),
      RangeOf(Excluded(U64Max), Excluded(2)) }

\* view.subregion(range) on the current view
Subregion(range) ==
    /\ recording => Len(hist) < MaxDepth
    /\ LET r == subregion(view, range)
       IN  IF r.panic
           THEN /\ last' = Call("subregion", "Panic")
                /\ UNCHANGED <<view, hist>>
           ELSE /\ view' = [offset |-> r.offset, length |-> r.length]
                /\ hist' = IF recording THEN Append(hist, range) ELSE hist
                /\ last' = [Call("subregion", "Ok") EXCEPT !.range = range]
    /\ UNCHANGED <<overflowChecks, region, mem, writes, recording, own, ownLive, mapVars, regVars, hostVars>>

\* (&dyn PciRegion).as_subregion() of the root region
AsSubregionRoot ==
    /\ view' = RootView
    /\ hist' = <<>>
    /\ last' = Call("subregion", "Ok")
    /\ UNCHANGED <<overflowChecks, region, mem, writes, recording, own, ownLive, mapVars, regVars, hostVars>>

\* (&OwningPciRegion).as_subregion()
AsSubregionOwning ==
    /\ ownLive > 0
    /\ LET r == owning_as_subregion(own)
       IN  IF r.panic
           THEN /\ last' = Call("subregion", "Panic")
                /\ UNCHANGED <<view, recording, hist>>
           ELSE /\ view' = [offset |-> r.offset, length |-> r.length]
                /\ recording' = FALSE
                /\ hist' = <<>>
                /\ last' = Call("subregion", "Ok")
    /\ UNCHANGED <<overflowChecks, region, mem, writes, own, ownLive, mapVars, regVars, hostVars>>

\* own.owning_subregion(range): a new OwningPciRegion that clones both Arcs
OwningSubregion(range) ==
    /\ ownLive > 0
    /\ ownLive < MaxOwning
    /\ LET r == owning_subregion(own, range)
       IN  IF r.panic
           THEN /\ last' = Call("owning_subregion", "Panic")
                /\ UNCHANGED <<own, ownLive>>
           ELSE /\ own' = [offset |-> r.offset, length |-> r.length]
                /\ ownLive' = ownLive + 1
                /\ last' = [Call("owning_subregion", "Ok") EXCEPT !.range = range]
    /\ UNCHANGED <<overflowChecks, region, mem, writes, view, recording, hist, mapVars, regVars, hostVars>>

(* ------------------------------------------------------------------ *)
(* Owning and mapped regions (regions.rs, backends/vfio/mod.rs)         *)
(*                                                                      *)
(* `own` is the OwningPciRegion the next call is made on; ownLive counts *)
(* all live handles.  Handles other than `own` only matter through the  *)
(* Arcs they hold, so they are counted and not described.               *)
(* ------------------------------------------------------------------ *)

LiveMappings(maps) == {i \in DOMAIN maps : maps[i].live}

\* strong count of the Arc<VfioPciDeviceInner>: the VfioPciDevice, every
\* OwningPciRegion (field device) and every MappedOwningPciRegion that holds one
InnerStrong(dev, owners, maps) ==
    (IF dev THEN 1 ELSE 0) + owners
        + Cardinality({i \in LiveMappings(maps) : maps[i].device})

\* strong count of the Arc<File>: VfioPciDeviceInner.file and config_region while
\* the inner device lives, and the BAR's VfioUnmappedPciRegion while the inner
\* device (field bars) or an OwningPciRegion (field region) holds it
FileStrong(dev, owners, maps) ==
    (IF InnerStrong(dev, owners, maps) > 0 THEN 2 ELSE 0)
        + (IF InnerStrong(dev, owners, maps) > 0 \/ owners > 0 THEN 1 ELSE 0)

\* Permissions::can_read / can_write
can_read(p) == p \in {"Read", "ReadWrite"}
can_write(p) == p \in {"Write", "ReadWrite"}

\* usize::MAX as u64 on a 64-bit target
UsizeMax == U64Max

\* the MappedOwningPciRegion built without a clone of the device Arc (a faulty variant)
new_mapped_no_device(ptr, length) ==
    [length |-> length, ptr |-> ptr, live |-> TRUE, device |-> FALSE]

\* the MappedOwningPciRegion value built at the end of OwningPciRegion::map: ptr,
\* length, and a clone of the device Arc (live: it has not been dropped yet)
new_mapped(ptr, length) ==
    [length |-> length, ptr |-> ptr, live |-> TRUE, device |-> TRUE]

\* map() whose permission check is missing (a faulty variant)
map_checks_none(o, range, permissions) ==
    LET c == clamp_range(range, region.length)
        at == AddU64(o.offset, c.start)
    IN  IF c.panic THEN [offset |-> 0, length |-> 0, st |-> "Panic", err |-> "None"]
        ELSE IF overflowChecks /\ at.ovf
        THEN [offset |-> 0, length |-> 0, st |-> "Panic", err |-> "None"]
        ELSE [offset |-> at.val, length |-> c.end - c.start, st |-> "Ok", err |-> "None"]

\* OwningPciRegion::map up to the call of device.region_map: the local checks, and
\* the offset and length of the mapping it asks for
map_checks(o, range, permissions) ==
    LET c == clamp_range(range, region.length)
        at == AddU64(o.offset, c.start)
    IN  IF c.panic THEN [offset |-> 0, length |-> 0, st |-> "Panic", err |-> "None"]
        ELSE IF c.end - c.start > UsizeMax
        THEN [offset |-> 0, length |-> 0, st |-> "Err", err |-> "InvalidInput"]
        ELSE IF \/ (can_read(permissions) /\ ~can_read(region.permissions))
                \/ (can_write(permissions) /\ ~can_write(region.permissions))
        THEN [offset |-> 0, length |-> 0, st |-> "Err", err |-> "InvalidInput"]
        ELSE IF overflowChecks /\ at.ovf
        THEN [offset |-> 0, length |-> 0, st |-> "Panic", err |-> "None"]
        ELSE [offset |-> at.val, length |-> c.end - c.start, st |-> "Ok", err |-> "None"]

\* the address mmap64 returns: one that no live mapping has
FreePtr(maps) ==
    CHOOSE p \in 1..(MaxMappings + 1) :
        /\ \A i \in LiveMappings(maps) : maps[i].ptr # p
        /\ \A q \in 1..(p - 1) : \E i \in LiveMappings(maps) : maps[i].ptr = q

\* Drop that unmaps nothing (a faulty variant)
drop_unmaps_nothing(m) == <<>>

\* impl Drop for MappedOwningPciRegion: the region_unmap calls it makes
drop_unmaps(m) == <<(<<m.ptr, m.length>>)>>

\* device.bar(index): OwningPciRegion::new on the BAR's region
Bar ==
    /\ deviceLive
    /\ ownLive < MaxOwning
    /\ own' = OwningNew
    /\ ownLive' = ownLive + 1
    /\ last' = Call("bar", "Ok")
    /\ UNCHANGED <<overflowChecks, region, mem, writes, view, recording, hist, mapVars, regVars, hostVars>>

\* own.map(range, permissions); the device handle (mmap64) accepts or refuses
Map(range, permissions, accepted) ==
    /\ ownLive > 0
    /\ Len(mappings) < MaxMappings
    /\ LET c == map_checks(own, range, permissions)
           call == [Call("map", c.st) EXCEPT !.err = c.err]
       IN  IF c.st # "Ok"
           THEN /\ last' = call
                /\ UNCHANGED mappings
           ELSE IF accepted /\ c.length > 0
           THEN /\ mappings' = Append(mappings,
                                      new_mapped(FreePtr(mappings), c.length))
                /\ last' = [call EXCEPT !.requested = TRUE, !.offset = c.offset,
                                        !.n = c.length]
           ELSE /\ last' = [call EXCEPT !.st = "Err", !.err = "Io", !.requested = TRUE,
                                        !.offset = c.offset, !.n = c.length]
                /\ UNCHANGED mappings
    /\ fileOpen' = fileOpen
    /\ UNCHANGED <<overflowChecks, region, mem, writes, view, recording, hist, own, ownLive,
                   deviceLive, unmapLog, regVars, hostVars>>

\* an OwningPciRegion goes out of scope: its device and region Arcs are dropped
DropOwning ==
    /\ ownLive > 0
    /\ ownLive' = ownLive - 1
    /\ own' = IF ownLive = 1 THEN NoOwning ELSE own
    /\ fileOpen' = (fileOpen /\ FileStrong(deviceLive, ownLive - 1, mappings) > 0)
    /\ UNCHANGED <<overflowChecks, region, mem, writes, view, recording, hist, last,
                   deviceLive, mappings, unmapLog, regVars, hostVars>>

\* a MappedOwningPciRegion goes out of scope: Drop::drop, then its fields
DropMapped(i) ==
    /\ i \in LiveMappings(mappings)
    /\ unmapLog' = unmapLog \o drop_unmaps(mappings[i])
    /\ mappings' = [mappings EXCEPT ![i].live = FALSE]
    /\ fileOpen' = (fileOpen /\ FileStrong(deviceLive, ownLive, mappings') > 0)
    /\ UNCHANGED <<overflowChecks, region, mem, writes, view, recording, hist, own, ownLive,
                   last, deviceLive, regVars, hostVars>>

\* the VfioPciDevice goes out of scope
DropDevice ==
    /\ deviceLive
    /\ deviceLive' = FALSE
    /\ fileOpen' = (fileOpen /\ FileStrong(FALSE, ownLive, mappings) > 0)
    /\ UNCHANGED <<overflowChecks, region, mem, writes, view, recording, hist, own, ownLive,
                   last, mappings, unmapLog, regVars, hostVars>>

(* ------------------------------------------------------------------ *)
(* Accesses: the PciRegion read and write methods                       *)
(* ------------------------------------------------------------------ *)

ReadOps == {"read_u8", "read_le_u16", "read_le_u32"}
WriteOps == {"write_u8", "write_le_u16", "write_le_u32"}

\* the offsets accesses are tried at: in the region, at its end, and near u64::MAX
AccessOffsets == {0, 1, 2, RootLen, U64Max}

\* the buffer lengths read_bytes is tried with
BufferLens == {1, 2, 4}

\* the values written: their bytes differ, so byte order shows
Values(op) ==
    CASE op = "write_u8" -> {120}
      [] op = "write_le_u16" -> {22136}
      [] OTHER -> {305419896}

\* the region a call is made on: the root region itself or the subregion `view`
Vias == {"root", "view"}

ViaLen(via) == IF via = "root" THEN region.length ELSE view.length
ViaOffset(via) == IF via = "root" THEN 0 ELSE view.offset

access(via, op, offset, n, value, m) ==
    IF via = "root" THEN root_access(op, offset, n, value, m)
    ELSE subregion_access(view, op, offset, n, value, m)

\* the bytes a caller means by a little-endian value of `size` bytes
LeData(value, size) == [i \in 1..size |-> (value \div (256 ^ (i - 1))) % 256]

\* the record of an access and its outcome r
Accessed(op, via, offset, n, value, r) ==
    [Call(op, r.st) EXCEPT !.via = via, !.offset = offset, !.n = n, !.value = value,
                           !.err = r.err, !.data = r.data, !.oob = r.oob, !.fwd = r.fwd]

\* the previous call was a write that succeeded inside its region, and its bytes
\* are exactly the n bytes at `offset` of `via`: then those bytes, else <<>>
JustWritten(via, offset, n) ==
    IF /\ last.op \in WriteOps
       /\ last.st = "Ok"
       /\ ~last.oob
       /\ last.offset + SizeOf(last.op) <= ViaLen(last.via)
       /\ offset + n <= ViaLen(via)
       /\ ViaOffset(last.via) + last.offset = ViaOffset(via) + offset
       /\ SizeOf(last.op) = n
       /\ can_read(region.permissions) /\ can_write(region.permissions)
    THEN LeData(last.value, n)
    ELSE <<>>

\* region.read_bytes(offset, buffer) with a buffer of n bytes
ReadBytes(via, offset, n) ==
    /\ \E r \in access(via, "read_bytes", offset, n, 0, mem) :
          /\ mem' = r.mem
          /\ last' = [Accessed("read_bytes", via, offset, n, 0, r)
                        EXCEPT !.wrote = JustWritten(via, offset, n)]
    /\ UNCHANGED <<overflowChecks, region, writes, view, recording, hist, own, ownLive,
                   mapVars, regVars, hostVars>>

\* region.read_u8(offset), read_le_u16(offset), read_le_u32(offset)
ReadTyped(op, via, offset) ==
    /\ \E r \in access(via, op, offset, 0, 0, mem) :
          /\ mem' = r.mem
          /\ last' = Accessed(op, via, offset, SizeOf(op), 0, r)
    /\ UNCHANGED <<overflowChecks, region, writes, view, recording, hist, own, ownLive,
                   mapVars, regVars, hostVars>>

\* region.write_u8(offset, value), write_le_u16(..), write_le_u32(..)
WriteTyped(op, via, offset, value) ==
    /\ writes < MaxWrites
    /\ writes' = writes + 1
    /\ \E r \in access(via, op, offset, 0, value, mem) :
          /\ mem' = r.mem
          /\ last' = Accessed(op, via, offset, SizeOf(op), value, r)
    /\ UNCHANGED <<overflowChecks, region, view, recording, hist, own, ownLive,
                   mapVars, regVars, hostVars>>

(* ------------------------------------------------------------------ *)
(* Pointers: as_ptr() and as_mut_ptr()                                  *)
(* ------------------------------------------------------------------ *)

\* Option<*const u8> / Option<*mut u8>: a pointer is the distance from the first
\* byte of the root region's memory
NonePtr == [st |-> "None", ptr |-> NoAddr]
SomePtr(at) == [st |-> "Some", ptr |-> at]

\* PciMemoryRegion::as_ptr: Some(self.ptr); VfioUnmappedPciRegion::as_ptr: None
root_as_ptr == IF region.kind = "memory" THEN SomePtr(0) ELSE NonePtr

\* PciMemoryRegion::as_mut_ptr: Some(self.ptr); VfioUnmappedPciRegion::as_mut_ptr: None
root_as_mut_ptr == IF region.kind = "memory" THEN SomePtr(0) ELSE NonePtr

\* impl PciRegion for T: AsPciSubregion, as_ptr and as_mut_ptr: the pointer of the
\* underlying region (None passed on by `?`), advanced by subregion.offset
subregion_ptr(v, root) ==
    IF root.st = "None" THEN NonePtr ELSE SomePtr(root.ptr + v.offset)

\* region.as_ptr() or region.as_mut_ptr() on the root region or on the subregion
AsPtr(op, via) ==
    /\ LET root == IF op = "as_ptr" THEN root_as_ptr ELSE root_as_mut_ptr
           p == IF via = "root" THEN root ELSE subregion_ptr(view, root)
       IN  last' = [Call(op, p.st) EXCEPT !.via = via, !.fwd = p.ptr]
    /\ UNCHANGED <<overflowChecks, region, mem, writes, view, recording, hist, own,
                   ownLive, mapVars, regVars, hostVars>>

(* ------------------------------------------------------------------ *)
(* Bit-field registers (regions/bit_field_macros.rs,                    *)
(* regions/structured.rs, config/mod.rs)                                *)
(*                                                                      *)
(* A register definition is one pci_bit_field! struct: its mode, the    *)
(* width of its type in bits and its elements in order.  Registers of   *)
(* 8 and 16 bits are modelled.  The register sits at offset `reg` of    *)
(* the root region and is read and written as a whole through it.       *)
(* ------------------------------------------------------------------ *)

RECURSIVE BitAnd(_, _)
\* a & b
BitAnd(a, b) ==
    IF a = 0 \/ b = 0 THEN 0
    ELSE (a % 2) * (b % 2) + 2 * BitAnd(a \div 2, b \div 2)

RECURSIVE BitOr(_, _)
\* a | b
BitOr(a, b) ==
    IF a = 0 THEN b
    ELSE IF b = 0 THEN a
    ELSE Max(a % 2, b % 2) + 2 * BitOr(a \div 2, b \div 2)

\* !a on a type of `bits` bits
BitNot(a, bits) == (2 ^ bits - 1) - a

\* bit i of a
Bit(a, i) == (a \div (2 ^ i)) % 2

\* one element `name @ bit : mode` of a definition
ElemBit(bit, mode) == [last |-> bit, range |-> FALSE, mode |-> mode, first |-> bit]

\* one element `name @ first--last : mode` of a definition
ElemBits(first, last_bit, mode) ==
    [last |-> last_bit, range |-> TRUE, mode |-> mode, first |-> first]

\* _bit_range!(type, first, last) whose upper mask stops below the last bit (a faulty variant)
bit_range_short(bits, first, last_bit) ==
    LET mask_1 == IF last_bit >= bits THEN BitNot(0, bits) ELSE 2 ^ last_bit - 1
        mask_2 == 2 ^ first - 1
    IN  BitAnd(mask_1, BitNot(mask_2, bits))

\* _bit_range!(type, first, last): checked_shl gives None when last + 1 is the width
bit_range(bits, first, last_bit) ==
    LET mask_1 == IF last_bit + 1 >= bits THEN BitNot(0, bits) ELSE 2 ^ (last_bit + 1) - 1
        mask_2 == 2 ^ first - 1
    IN  BitAnd(mask_1, BitNot(mask_2, bits))

\* _pci_bit_field_write_mask_elem!: the arms in order
pci_bit_field_write_mask_elem(bits, elem) ==
    CASE ~elem.range /\ elem.mode = "RW1C" -> BitNot(2 ^ elem.first, bits)
      [] ~elem.range /\ elem.mode = "RsvdZ" -> BitNot(2 ^ elem.first, bits)
      [] elem.range /\ elem.mode = "RsvdZ" ->
            BitNot(bit_range(bits, elem.first, elem.last), bits)
      [] OTHER -> BitNot(0, bits)

RECURSIVE pci_bit_field_write_mask(_, _)
\* _pci_bit_field_write_mask!: elem & elem & ... & !0
pci_bit_field_write_mask(bits, elems) ==
    IF elems = <<>> THEN BitNot(0, bits)
    ELSE BitAnd(pci_bit_field_write_mask_elem(bits, Head(elems)),
                pci_bit_field_write_mask(bits, Tail(elems)))

\* pci_bit_field!: the struct of a definition; its WRITE_MASK is a const, computed
\* once from the elements
pci_bit_field(name, mode, bits, elems) ==
    [name |-> name, mode |-> mode, bits |-> bits, elems |-> elems,
     WRITE_MASK |-> pci_bit_field_write_mask(bits, elems)]

\* config/mod.rs: the Command register
PciCommand ==
    pci_bit_field("PciCommand", "RW", 16,
        <<ElemBit(0, "RW"), ElemBit(1, "RW"), ElemBit(2, "RW"), ElemBit(3, "RO"),
          ElemBit(4, "RO"), ElemBit(5, "RO"), ElemBit(6, "RW"), ElemBit(7, "RO"),
          ElemBit(8, "RW"), ElemBit(9, "RO"), ElemBit(10, "RW1C"),
          ElemBits(11, 15, "RsvdP")>>)

\* config/mod.rs: the Status register
PciStatus ==
    pci_bit_field("PciStatus", "RW", 16,
        <<ElemBit(0, "RO"), ElemBits(1, 2, "RsvdZ"), ElemBit(3, "RO"),
          ElemBit(4, "RO"), ElemBit(5, "RO"), ElemBit(6, "RsvdZ"), ElemBit(7, "RO"),
          ElemBit(8, "RW1C"), ElemBits(9, 10, "RO"), ElemBit(11, "RW1C"),
          ElemBit(12, "RW1C"), ElemBit(13, "RW1C"), ElemBit(14, "RW1C"),
          ElemBit(15, "RW1C")>>)

\* config/mod.rs: the BIST register
PciBist ==
    pci_bit_field("PciBist", "RW", 8,
        <<ElemBits(0, 3, "RO"), ElemBits(4, 5, "RsvdP"), ElemBit(6, "RW"),
          ElemBit(7, "RO")>>)

\* the element list of tests::test_pci_bit_field_write_mask, as an RW u8 register
TestRsvdZ ==
    pci_bit_field("TestRsvdZ", "RW", 8,
        <<ElemBit(3, "RsvdZ"), ElemBits(6, 7, "RsvdZ")>>)

\* an RW u16 register with one RW1C bit at 8, RsvdZ bits 1--2 and an RW bit at 0
OneClearBit ==
    pci_bit_field("OneClearBit", "RW", 16,
        <<ElemBit(0, "RW"), ElemBits(1, 2, "RsvdZ"), ElemBit(8, "RW1C")>>)

\* config/caps.rs: the Message Control register of the MSI capability
MsiMessageControl ==
    pci_bit_field("MsiMessageControl", "RW", 16,
        <<ElemBit(0, "RW"), ElemBits(1, 3, "RO"), ElemBits(4, 6, "RW"),
          ElemBit(7, "RO"), ElemBit(8, "RO"), ElemBit(9, "RO"), ElemBit(10, "RW"),
          ElemBits(11, 15, "RsvdP")>>)

\* an RW u8 register with an element of every mode: an RW range at 0--1, RsvdZ
\* at 2, RW1C at 3, RO at 4, RsvdP at 5, an RW bit at 6 and bit 7 left out
EveryMode ==
    pci_bit_field("EveryMode", "RW", 8,
        <<ElemBits(0, 1, "RW"), ElemBit(2, "RsvdZ"), ElemBit(3, "RW1C"),
          ElemBit(4, "RO"), ElemBit(5, "RsvdP"), ElemBit(6, "RW")>>)

\* the pci_bit_field! definitions the register is taken from
RegisterDefs ==
    {PciCommand, PciStatus, PciBist, TestRsvdZ, OneClearBit, MsiMessageControl,
     EveryMode}

\* the indices of the elements of the longest definition
ElemIndices == 1..Len(PciStatus.elems)

\* the register values written whole: all zeros and all ones of either width
RegSamples == {0, 2 ^ 8 - 1, 2 ^ 16 - 1}

\* the offsets the register is placed at
RegOffsets == {2}

ReadOpOf(bits) == IF bits = 8 THEN "read_u8" ELSE "read_le_u16"
WriteOpOf(bits) == IF bits = 8 THEN "write_u8" ELSE "write_le_u16"

ReadAccess(r) ==
    [v |-> IF r.st = "Ok" THEN from_le_bytes(r.data) ELSE 0, st |-> r.st,
     k |-> "read"]

WriteAccess(w, value) == [v |-> value, st |-> w.st, k |-> "write"]

\* the result of an accessor call: status, value returned, the register accesses
\* it made in order, and memory after it
RegResult(st, err, value, acc, m) ==
    [mem |-> m, value |-> value, st |-> st, err |-> err, acc |-> acc]

\* PciRegisterValue::read for u8 / u16: the outcomes of the region's read
register_read(bits, offset, m) == root_access(ReadOpOf(bits), offset, 0, 0, m)

\* the ? after a register read that failed: the accessor returns the read's error
read_failed(r, m) == RegResult(r.st, r.err, 0, <<ReadAccess(r)>>, m)

\* PciRegisterValue::write for u8 / u16, after the accesses `before`
register_write(bits, offset, value, before, m) ==
    {RegResult(w.st, w.err, 0, Append(before, WriteAccess(w, value)), w.mem)
        : w \in root_access(WriteOpOf(bits), offset, 0, value, m)}

\* PciBitReadWrite::write that skips the write mask (a faulty variant)
bit_write_unmasked(bits, offset, mask, write_mask, value, m) ==
    UNION {IF r.st # "Ok" THEN {read_failed(r, m)}
           ELSE LET old == from_le_bytes(r.data)
                    new == IF value THEN BitOr(old, mask)
                           ELSE BitAnd(old, BitNot(mask, bits))
                IN  register_write(bits, offset, new, <<ReadAccess(r)>>, m)
             : r \in register_read(bits, offset, m)}

\* PciBitReadWrite::write(value)
bit_write(bits, offset, mask, write_mask, value, m) ==
    UNION {IF r.st # "Ok" THEN {read_failed(r, m)}
           ELSE LET old == BitAnd(from_le_bytes(r.data), write_mask)
                    new == IF value THEN BitOr(old, mask)
                           ELSE BitAnd(old, BitNot(mask, bits))
                IN  register_write(bits, offset, new, <<ReadAccess(r)>>, m)
             : r \in register_read(bits, offset, m)}

\* PciBitReadWrite::read / PciBitReadOnly::read / PciBitReadClear::read
bit_read(bits, offset, mask, m) ==
    {IF r.st # "Ok" THEN read_failed(r, m)
     ELSE RegResult("Ok", "None",
                    IF BitAnd(from_le_bytes(r.data), mask) # 0 THEN 1 ELSE 0,
                    <<ReadAccess(r)>>, m)
        : r \in register_read(bits, offset, m)}

\* PciBitReadClear::clear: self.rw.write(true)
bit_clear(bits, offset, mask, write_mask, m) ==
    bit_write(bits, offset, mask, write_mask, TRUE, m)

\* PciBitsReadWrite::write that writes the shifted value alone, without the
\* register's other bits (a faulty variant)
bits_write_shifted_only(bits, offset, mask, shift, write_mask, value, m) ==
    LET shifted == (value * 2 ^ shift) % (2 ^ bits)
    IN  IF shifted \div (2 ^ shift) # value \/ BitAnd(shifted, BitNot(mask, bits)) # 0
        THEN {RegResult("Err", "TooBig", 0, <<>>, m)}
        ELSE UNION {IF r.st # "Ok" THEN {read_failed(r, m)}
                    ELSE register_write(bits, offset, shifted, <<ReadAccess(r)>>, m)
                      : r \in register_read(bits, offset, m)}

\* PciBitsReadWrite::write that skips the write mask (a faulty variant)
bits_write_unmasked(bits, offset, mask, shift, write_mask, value, m) ==
    LET shifted == (value * 2 ^ shift) % (2 ^ bits)
    IN  IF shifted \div (2 ^ shift) # value \/ BitAnd(shifted, BitNot(mask, bits)) # 0
        THEN {RegResult("Err", "TooBig", 0, <<>>, m)}
        ELSE UNION {IF r.st # "Ok" THEN {read_failed(r, m)}
                    ELSE LET to_write == BitOr(from_le_bytes(r.data), shifted)
                         IN  register_write(bits, offset, to_write, <<ReadAccess(r)>>, m)
                      : r \in register_read(bits, offset, m)}

\* PciBitsReadWrite::write(value): the value is shifted in the register's type
\* (bits shifted out are lost), checked against the field, and or-ed into the
\* register read and masked with the write mask
bits_write(bits, offset, mask, shift, write_mask, value, m) ==
    LET shifted == (value * 2 ^ shift) % (2 ^ bits)
    IN  IF shifted \div (2 ^ shift) # value \/ BitAnd(shifted, BitNot(mask, bits)) # 0
        THEN {RegResult("Err", "TooBig", 0, <<>>, m)}
        ELSE UNION {IF r.st # "Ok" THEN {read_failed(r, m)}
                    ELSE LET to_write ==
                                 BitOr(BitAnd(from_le_bytes(r.data), write_mask), shifted)
                         IN  register_write(bits, offset, to_write, <<ReadAccess(r)>>, m)
                      : r \in register_read(bits, offset, m)}

\* the record of an accessor call on element `field` (0: the whole register)
RegCall(op, field, value, r) ==
    [value |-> value, st |-> r.st, err |-> r.err, op |-> op, field |-> field,
     ret |-> r.value, acc |-> r.acc]

\* the elements of the register in use that are single bits of the given modes
SingleBits(modes) ==
    {i \in DOMAIN regDef.elems : ~regDef.elems[i].range /\ regDef.elems[i].mode \in modes}

\* register.field().clear() on an RW1C bit
ClearBit(i) ==
    /\ i \in SingleBits({"RW1C"})
    /\ \E r \in bit_clear(regDef.bits, reg, 2 ^ regDef.elems[i].first,
                          regDef.WRITE_MASK, mem) :
          /\ mem' = r.mem
          /\ regLog' = RegCall("clear", i, 1, r)
    /\ UNCHANGED <<overflowChecks, region, writes, view, recording, hist, own, ownLive,
                   last, mapVars, regDef, reg, hostVars>>

\* register.field().write(value) on an RW bit
WriteBit(i, value) ==
    /\ i \in SingleBits({"RW"})
    /\ \E r \in bit_write(regDef.bits, reg, 2 ^ regDef.elems[i].first,
                          regDef.WRITE_MASK, value, mem) :
          /\ mem' = r.mem
          /\ regLog' = RegCall("write_bit", i, IF value THEN 1 ELSE 0, r)
    /\ UNCHANGED <<overflowChecks, region, writes, view, recording, hist, own, ownLive,
                   last, mapVars, regDef, reg, hostVars>>

\* register.field().read() on an RO, RW or RW1C bit
ReadBit(i) ==
    /\ i \in SingleBits({"RO", "RW", "RW1C"})
    /\ \E r \in bit_read(regDef.bits, reg, 2 ^ regDef.elems[i].first, mem) :
          /\ mem' = r.mem
          /\ regLog' = RegCall("read_bit", i, 0, r)
    /\ UNCHANGED <<overflowChecks, region, writes, view, recording, hist, own, ownLive,
                   last, mapVars, regDef, reg, hostVars>>

\* the values handed to write() of an RW bit range (its type is u8): zero, values
\* that fit a field of 2 or of 3 bits, and values too big for either
\* PciBitsReadWrite::read: the register, masked and shifted down
bits_read(bits, offset, mask, shift, m) ==
    {IF r.st # "Ok" THEN read_failed(r, m)
     ELSE RegResult("Ok", "None", BitAnd(from_le_bytes(r.data), mask) \div (2 ^ shift),
                    <<ReadAccess(r)>>, m)
        : r \in register_read(bits, offset, m)}

\* what read() of the bit range that is element i of the register returns on m
bits_read_elem(i, m) ==
    bits_read(regDef.bits, reg,
              bit_range(regDef.bits, regDef.elems[i].first, regDef.elems[i].last),
              regDef.elems[i].first, m)

ReadBits(i) ==
    /\ i \in DOMAIN regDef.elems
    /\ regDef.elems[i].range
    /\ regDef.elems[i].mode \in {"RO", "RW"}
    /\ \E r \in bits_read_elem(i, mem) :
          /\ mem' = r.mem
          /\ regLog' = RegCall("read_bits", i, 0, r)
    /\ UNCHANGED <<overflowChecks, region, writes, view, recording, hist, own, ownLive,
                   last, mapVars, regDef, reg, hostVars>>

BitsValues == {0, 1, 2, 5, 8, 2 ^ 8 - 1}

\* register.field().write(value) on an RW bit range
WriteBits(i, value) ==
    /\ i \in DOMAIN regDef.elems
    /\ regDef.elems[i].range
    /\ regDef.elems[i].mode = "RW"
    /\ \E r \in bits_write(regDef.bits, reg,
                           bit_range(regDef.bits, regDef.elems[i].first,
                                     regDef.elems[i].last),
                           regDef.elems[i].first, regDef.WRITE_MASK, value, mem) :
          /\ mem' = r.mem
          /\ regLog' = RegCall("write_bits", i, value, r)
    /\ UNCHANGED <<overflowChecks, region, writes, view, recording, hist, own, ownLive,
                   last, mapVars, regDef, reg, hostVars>>

\* PciBitFieldWriteable::write(value): the whole register at once
WriteRegister(value) ==
    /\ regDef.mode = "RW"
    /\ value \in {0, 2 ^ regDef.bits - 1}
    /\ \E r \in register_write(regDef.bits, reg, value, <<>>, mem) :
          /\ mem' = r.mem
          /\ regLog' = RegCall("write", 0, value, r)
    /\ UNCHANGED <<overflowChecks, region, writes, view, recording, hist, own, ownLive,
                   last, mapVars, regDef, reg, hostVars>>

(* ------------------------------------------------------------------ *)
(* Field writes of two threads (structured.rs)                          *)
(*                                                                      *)
(* The accessors are Send + Sync and hold no lock: a write is a read of *)
(* the register followed by a write of it, and the steps of two calls   *)
(* made by two threads interleave.                                      *)
(* ------------------------------------------------------------------ *)

ThreadIds == {1, 2}

\* a thread that is in no call
IdleThread == [value |-> 0, st |-> "Ok", field |-> 0, old |-> 0, pc |-> "idle"]

\* PciBitReadWrite::write: `new`, from what the register read (`read`)
bit_write_new(bits, read, mask, write_mask, value) ==
    LET old == BitAnd(read, write_mask)
    IN  IF value = 1 THEN BitOr(old, mask) ELSE BitAnd(old, BitNot(mask, bits))

\* PciBitsReadWrite::write: `to_write`, from what the register read (`read`)
bits_write_to_write(bits, read, shift, write_mask, value) ==
    BitOr(BitAnd(read, write_mask), (value * 2 ^ shift) % (2 ^ bits))

\* PciBitsReadWrite::write: the value does not fit the field
too_big(bits, mask, shift, value) ==
    LET shifted == (value * 2 ^ shift) % (2 ^ bits)
    IN  shifted \div (2 ^ shift) # value \/ BitAnd(shifted, BitNot(mask, bits)) # 0

\* thread t calls write(value) on the RW element i of the register and runs it up
\* to and including T::read(region, offset)
ThreadRead(t, i, value) ==
    /\ threads[t].pc = "idle"
    /\ i \in DOMAIN regDef.elems
    /\ regDef.elems[i].mode = "RW"
    /\ regDef.elems[i].range \/ value \in {0, 1}
    /\ LET e == regDef.elems[i]
           call == [IdleThread EXCEPT !.value = value, !.field = i]
       IN  IF e.range /\ too_big(regDef.bits, bit_range(regDef.bits, e.first, e.last),
                                 e.first, value)
           THEN /\ threads' = [threads EXCEPT ![t] = [call EXCEPT !.st = "Err",
                                                                  !.pc = "returned"]]
                /\ mem' = mem
           ELSE \E r \in register_read(regDef.bits, reg, mem) :
                   /\ mem' = r.mem
                   /\ threads' = [threads EXCEPT ![t] =
                         IF r.st # "Ok" THEN [call EXCEPT !.st = r.st, !.pc = "returned"]
                         ELSE [call EXCEPT !.pc = "read", !.old = from_le_bytes(r.data)]]
    /\ UNCHANGED <<overflowChecks, region, writes, view, recording, hist, own, ownLive,
                   last, mapVars, regVars, capVars, containerVars, walkVars>>

\* thread t goes on: it writes the register with what it computed from its read
ThreadWrite(t) ==
    /\ threads[t].pc = "read"
    /\ LET e == regDef.elems[threads[t].field]
           new == IF e.range
                  THEN bits_write_to_write(regDef.bits, threads[t].old, e.first,
                                           regDef.WRITE_MASK, threads[t].value)
                  ELSE bit_write_new(regDef.bits, threads[t].old, 2 ^ e.first,
                                     regDef.WRITE_MASK, threads[t].value)
       IN  \E w \in register_write(regDef.bits, reg, new, <<>>, mem) :
              /\ mem' = w.mem
              /\ threads' = [threads EXCEPT ![t].st = w.st, ![t].pc = "returned"]
    /\ UNCHANGED <<overflowChecks, region, writes, view, recording, hist, own, ownLive,
                   last, mapVars, regVars, capVars, containerVars, walkVars>>

(* ------------------------------------------------------------------ *)
(* Capability scans (config/caps.rs, config/ext_caps.rs)                *)
(*                                                                      *)
(* The configuration space is a region whose reads succeed (it is at    *)
(* least as long as the scan requires and every offset read is aligned  *)
(* for its type); config.bytes lists the bytes that are not 0.  A scan   *)
(* advances one loop iteration per step.  A capability's subregion      *)
(* runs from its offset to the end of the window and is kept as its     *)
(* offset.                                                              *)
(*   scan.kind "none" | "legacy" | "extended"                           *)
(*   scan.pc   "idle" | "legacy_loop" | "of_type" | "extended_loop" |   *)
(*             "done" | "iterated" | "typed"                            *)
(*   scan.err  "None" | "TooShort" | "OutOfWindow" | "Unaligned" |      *)
(*             "Cycle" (all ErrorKind::InvalidInput in the code)        *)
(* ------------------------------------------------------------------ *)

\* caps.rs: CAP_RANGE = 0x40..0x100
CAP_RANGE_start == 64
CAP_RANGE_end == 256

\* caps.rs: the number of bytes after the PCI header and before the end of the
\* compatible configuration space
ITERATIONS_UPPER_BOUND == CAP_RANGE_end - CAP_RANGE_start

\* ext_caps.rs: CAP_RANGE = 0x100..0x1000
EXT_CAP_RANGE_start == 256
EXT_CAP_RANGE_end == 4096

\* ext_caps.rs: the number of 2-byte words in the extended configuration space
EXT_ITERATIONS_UPPER_BOUND == (EXT_CAP_RANGE_end - EXT_CAP_RANGE_start) \div 2

\* the byte at offset a of configuration space c
ByteAt(c, a) == IF a \in DOMAIN c.bytes THEN c.bytes[a] ELSE 0

\* a configuration space of len bytes.  Status (0x06) has the capabilities-list
\* bit (4) as given, the capabilities pointer (0x34) is ptr, and each capability
\* [at, id, next] of caps has its ID at `at` and its next pointer at `at` + 1;
\* each extended capability of ext_caps has its header at `at`: ID in bits 0--15,
\* version 1 in bits 16--19, next offset in bits 20--31, little endian.
MakeConfig(len, capabilities_list, ptr, caps, ext_caps) ==
    LET capAt(a) == CHOOSE i \in DOMAIN caps : a \in {caps[i].at, caps[i].at + 1}
        extAt(a) == CHOOSE i \in DOMAIN ext_caps :
                        a \in ext_caps[i].at..(ext_caps[i].at + 3)
        capBytes == UNION {{caps[i].at, caps[i].at + 1} : i \in DOMAIN caps}
        extBytes == UNION {ext_caps[i].at..(ext_caps[i].at + 3) : i \in DOMAIN ext_caps}
    IN  [bytes |-> [a \in {6, 52} \cup capBytes \cup extBytes |->
                      IF a = 6 THEN (IF capabilities_list THEN 16 ELSE 0)
                      ELSE IF a = 52 THEN ptr
                      ELSE IF a \in capBytes
                      THEN (IF a = caps[capAt(a)].at THEN caps[capAt(a)].id
                            ELSE caps[capAt(a)].next)
                      ELSE LET e == ext_caps[extAt(a)]
                           IN  CASE a = e.at -> e.id % 256
                                 [] a = e.at + 1 -> e.id \div 256
                                 [] a = e.at + 2 -> 1 + 16 * (e.next % 16)
                                 [] OTHER -> e.next \div 16],
         len |-> len]

\* the configuration spaces scanned.  A chain visits distinct offsets in any
\* order, with the IDs of the crate's tests in chain order, and ends in a next
\* pointer that is 0, has only low bits set, lies below the window, or leads
\* back to the first node.
Configs ==
    LET Orders(S) ==
            {o \in UNION {[1..k -> S] : k \in 0..Cardinality(S)} :
                \A i, j \in DOMAIN o : i # j => o[i] # o[j]}
        Chain(order, ids, tail) ==
            [i \in DOMAIN order |->
                [at |-> order[i], id |-> ids[i],
                 next |-> IF i < Len(order) THEN order[i + 1] ELSE tail]]
        capIds == <<1, 5, 16, 17>>
        extIds == <<1, 3, 4, 25>>
        caps == {Chain(o, capIds, t) : o \in Orders({64, 80, 128, 252}), t \in {0, 3, 60}}
                    \cup {Chain(o, capIds, o[1] + 1) :
                            o \in {<<64>>, <<128, 64>>, <<252, 80>>}}
        pcie == Chain(<<64, 80, 128>>, capIds, 0)
        plain == Chain(<<80, 64>>, capIds, 0)
        exts == {Chain(o, extIds, t) :
                    o \in {o \in Orders({256, 512, 4092}) : o = <<>> \/ o[1] = 256},
                    t \in {0, 3, 252}}
                    \cup {Chain(o, extIds, 256 + 2) : o \in {<<256>>, <<256, 512>>}}
        ptr(c) == IF c = <<>> THEN 0 ELSE c[1].at
    IN  {MakeConfig(256, b, ptr(c) + low, c, <<>>) :
            b \in BOOLEAN, low \in {0, 3}, c \in caps}
        \cup {MakeConfig(255, TRUE, 64, pcie, <<>>)}
        \cup {MakeConfig(256, TRUE, p, <<>>, <<>>) : p \in {60, 255}}
        \cup {MakeConfig(len, TRUE, ptr(c), c, e) :
                len \in {4095, 4096}, c \in {pcie, plain}, e \in exts}
        \cup {MakeConfig(4096, TRUE, 64, Chain(<<64>>, capIds, t), <<>>) : t \in {60, 65}}

\* no scan has been started
NoScan ==
    [kind |-> "none", st |-> "Idle", err |-> "None", pc |-> "idle", ids |-> <<>>,
     next_cap_offset |-> 0, cap_subregions |-> <<>>, legacy |-> <<>>, reads |-> {},
     typed |-> <<>>]

\* a scan returns: a legacy scan made for the extended scan hands its list to
\* of_type, and its error is the extended scan's (the ? operator)
Return(s, st, err) ==
    IF s.kind = "extended" /\ s.pc = "legacy_loop" /\ st = "Ok"
    THEN [s EXCEPT !.pc = "of_type"]
    ELSE [s EXCEPT !.pc = "done", !.st = st, !.err = err]

\* PciCapabilities::backed_by up to its loop: the length check, the
\* capabilities-list bit of Status, the capabilities pointer
legacy_begin(c, s) ==
    IF c.len < CAP_RANGE_end THEN Return(s, "Err", "TooShort")
    ELSE LET status == ByteAt(c, 6) + 256 * ByteAt(c, 7)
             t == [s EXCEPT !.pc = "legacy_loop", !.reads = @ \cup {6, 7}]
         IN  IF Bit(status, 4) = 0 THEN Return(t, "Ok", "None")
             ELSE [t EXCEPT !.next_cap_offset = BitAnd(ByteAt(c, 52), 252),
                            !.reads = @ \cup {52}]

\* the loop of PciCapabilities::backed_by with the new entry put in front of
\* the list (a faulty variant)
legacy_loop_push_front(c, s) ==
    IF s.next_cap_offset = 0 THEN Return(s, "Ok", "None")
    ELSE IF ~(CAP_RANGE_start <= s.next_cap_offset /\ s.next_cap_offset < CAP_RANGE_end)
    THEN Return(s, "Err", "OutOfWindow")
    ELSE IF Len(s.cap_subregions) = ITERATIONS_UPPER_BOUND
    THEN Return(s, "Err", "Cycle")
    ELSE [s EXCEPT !.cap_subregions = <<s.next_cap_offset>> \o @,
                   !.next_cap_offset = BitAnd(ByteAt(c, s.next_cap_offset + 1), 252),
                   !.reads = @ \cup {s.next_cap_offset + 1}]

\* the loop of PciCapabilities::backed_by without its iteration bound (a
\* faulty variant)
legacy_loop_unbounded(c, s) ==
    IF s.next_cap_offset = 0 THEN Return(s, "Ok", "None")
    ELSE IF ~(CAP_RANGE_start <= s.next_cap_offset /\ s.next_cap_offset < CAP_RANGE_end)
    THEN Return(s, "Err", "OutOfWindow")
    ELSE [s EXCEPT !.cap_subregions = Append(@, s.next_cap_offset),
                   !.next_cap_offset = BitAnd(ByteAt(c, s.next_cap_offset + 1), 252),
                   !.reads = @ \cup {s.next_cap_offset + 1}]

\* the loop of PciCapabilities::backed_by without its window check (a faulty
\* variant)
legacy_loop_any_offset(c, s) ==
    IF s.next_cap_offset = 0 THEN Return(s, "Ok", "None")
    ELSE IF Len(s.cap_subregions) = ITERATIONS_UPPER_BOUND
    THEN Return(s, "Err", "Cycle")
    ELSE [s EXCEPT !.cap_subregions = Append(@, s.next_cap_offset),
                   !.next_cap_offset = BitAnd(ByteAt(c, s.next_cap_offset + 1), 252),
                   !.reads = @ \cup {s.next_cap_offset + 1}]

\* one turn of the loop of PciCapabilities::backed_by, or its exit: the window
\* check, the iteration bound, the push, the next pointer of the header
legacy_loop(c, s) ==
    IF s.next_cap_offset = 0 THEN Return(s, "Ok", "None")
    ELSE IF ~(CAP_RANGE_start <= s.next_cap_offset /\ s.next_cap_offset < CAP_RANGE_end)
    THEN Return(s, "Err", "OutOfWindow")
    ELSE IF Len(s.cap_subregions) = ITERATIONS_UPPER_BOUND
    THEN Return(s, "Err", "Cycle")
    ELSE [s EXCEPT !.cap_subregions = Append(@, s.next_cap_offset),
                   !.next_cap_offset = BitAnd(ByteAt(c, s.next_cap_offset + 1), 252),
                   !.reads = @ \cup {s.next_cap_offset + 1}]

\* the PCI Express test of PciExtendedCapabilities::backed_by that goes on to
\* the extended window whatever the legacy list holds (a faulty variant)
of_type_any_device(c, s) ==
    [s EXCEPT !.pc = "extended_loop", !.legacy = s.cap_subregions,
              !.cap_subregions = <<>>, !.next_cap_offset = EXT_CAP_RANGE_start,
              !.reads = @ \cup {s.cap_subregions[i] : i \in DOMAIN s.cap_subregions}]

\* PciExtendedCapabilities::backed_by after the legacy scan:
\* of_type::<PciExpressCapability>() reads the ID of every legacy capability
\* (Id = 0x10, constant length); without one the result is empty
of_type(c, s) ==
    LET t == [s EXCEPT !.legacy = s.cap_subregions, !.cap_subregions = <<>>,
                       !.reads = @ \cup {s.cap_subregions[i] :
                                            i \in DOMAIN s.cap_subregions}]
    IN  IF \A i \in DOMAIN s.cap_subregions : ByteAt(c, s.cap_subregions[i]) # 16
        THEN Return(t, "Ok", "None")
        ELSE [t EXCEPT !.pc = "extended_loop", !.next_cap_offset = EXT_CAP_RANGE_start]

\* one turn of the loop of PciExtendedCapabilities::backed_by, or its exit; the
\* header is read as a u32 and its bits 20--31 are the next offset
extended_loop(c, s) ==
    IF s.next_cap_offset = 0 THEN Return(s, "Ok", "None")
    ELSE IF ~(EXT_CAP_RANGE_start <= s.next_cap_offset
              /\ s.next_cap_offset < EXT_CAP_RANGE_end)
    THEN Return(s, "Err", "OutOfWindow")
    ELSE IF s.next_cap_offset % 2 # 0 THEN Return(s, "Err", "Unaligned")
    ELSE IF Len(s.cap_subregions) = EXT_ITERATIONS_UPPER_BOUND
    THEN Return(s, "Err", "Cycle")
    ELSE LET next_capability_offset ==
                 ByteAt(c, s.next_cap_offset + 2) \div 16
                     + 16 * ByteAt(c, s.next_cap_offset + 3)
         IN  [s EXCEPT !.cap_subregions = Append(@, s.next_cap_offset),
                       !.next_cap_offset = BitAnd(next_capability_offset, 65532),
                       !.reads = @ \cup (s.next_cap_offset..(s.next_cap_offset + 3))]

\* config.capabilities(): PciCapabilities::backed_by(config) begins
BackedBy ==
    /\ scan.pc = "idle"
    /\ scan' = legacy_begin(config, [scan EXCEPT !.kind = "legacy", !.st = "Running"])
    /\ UNCHANGED <<regionVars, mapVars, regVars, config, containerVars, walkVars,
                   threadVars>>

\* a turn of the loop of PciCapabilities::backed_by
LegacyLoop ==
    /\ scan.pc = "legacy_loop"
    /\ scan' = legacy_loop(config, scan)
    /\ UNCHANGED <<regionVars, mapVars, regVars, config, containerVars, walkVars,
                   threadVars>>

\* config.extended_capabilities(): PciExtendedCapabilities::backed_by(config)
\* checks the length and scans the legacy capabilities
BackedByExtended ==
    /\ scan.pc = "idle"
    /\ scan' = LET s == [scan EXCEPT !.kind = "extended", !.st = "Running"]
               IN  IF config.len < EXT_CAP_RANGE_end THEN Return(s, "Err", "TooShort")
                   ELSE legacy_begin(config, s)
    /\ UNCHANGED <<regionVars, mapVars, regVars, config, containerVars, walkVars,
                   threadVars>>

\* the PCI Express test of PciExtendedCapabilities::backed_by
OfType ==
    /\ scan.pc = "of_type"
    /\ scan' = of_type(config, scan)
    /\ UNCHANGED <<regionVars, mapVars, regVars, config, containerVars, walkVars,
                   threadVars>>

\* a turn of the loop of PciExtendedCapabilities::backed_by
ExtendedLoop ==
    /\ scan.pc = "extended_loop"
    /\ scan' = extended_loop(config, scan)
    /\ UNCHANGED <<regionVars, mapVars, regVars, config, containerVars, walkVars,
                   threadVars>>

\* iter() on the list returned, each capability's header().capability_id().read():
\* a u8 at the capability's offset, or bits 0--15 of the u32 header there
Iter ==
    /\ scan.pc = "done"
    /\ scan.st = "Ok"
    /\ scan' = [scan EXCEPT
                  !.pc = "iterated",
                  !.ids = [i \in DOMAIN scan.cap_subregions |->
                             IF scan.kind = "legacy"
                             THEN ByteAt(config, scan.cap_subregions[i])
                             ELSE ByteAt(config, scan.cap_subregions[i])
                                    + 256 * ByteAt(config, scan.cap_subregions[i] + 1)],
                  !.reads = @ \cup UNION {IF scan.kind = "legacy"
                                          THEN {scan.cap_subregions[i]}
                                          ELSE scan.cap_subregions[i]
                                                 ..(scan.cap_subregions[i] + 3)
                                            : i \in DOMAIN scan.cap_subregions}]
    /\ UNCHANGED <<regionVars, mapVars, regVars, config, containerVars, walkVars,
                   threadVars>>

\* capability types with an ID and a constant length: PciPowerManagementCapability
\* (Id = 0x01, Length 0x08) and PciExpressCapability (Id = 0x10, Length 0x3c)
CapabilityTypes == {[length |-> 8, id |-> 1], [length |-> 60, id |-> 16]}

\* C::backed_by(subregion) of pci_capability! for the entry at offset `at`,
\* whose subregion runs to the end of the window: <<>> for Ok(None), or the
\* capability, its region being subregion.subregion(..length), which clamp_range
\* cuts to the length of the subregion
capability_backed_by(c, at, C) ==
    IF ByteAt(c, at) # C.id THEN <<>>
    ELSE <<[length |-> Min(Max(C.length, 0), CAP_RANGE_end - at), at |-> at]>>

\* capabilities.of_type::<C>() on the list a legacy scan returned: C::backed_by
\* on every entry, the capabilities it yields collected in order
OfTypeCapability(C) ==
    /\ scan.pc = "done"
    /\ scan.st = "Ok"
    /\ scan.kind = "legacy"
    /\ LET RECURSIVE flatten(_)
           flatten(i) ==
               IF i > Len(scan.cap_subregions) THEN <<>>
               ELSE capability_backed_by(config, scan.cap_subregions[i], C)
                        \o flatten(i + 1)
       IN  scan' = [scan EXCEPT
                      !.pc = "typed",
                      !.typed = flatten(1),
                      !.reads = @ \cup {scan.cap_subregions[i] :
                                           i \in DOMAIN scan.cap_subregions}]
    /\ UNCHANGED <<regionVars, mapVars, regVars, config, containerVars, walkVars,
                   threadVars>>

(* ------------------------------------------------------------------ *)
(* VFIO containers (backends/vfio/containers.rs)                        *)
(*                                                                      *)
(* A construction is one step.  The kernel's replies are its inputs;    *)
(* container.log lists the files opened and the requests (ioctls)       *)
(* issued, in order, each with the group it is about (0: none) and      *)
(* whether the reply let the construction go on.  container.err names   *)
(* the step that failed.  container.viable is the set of groups the     *)
(* kernel reports viable, and container.reported the IOVA ranges it     *)
(* reported, once the code has taken them from the reply.               *)
(* ------------------------------------------------------------------ *)

\* the number of IOVA ranges in a reply of the kernel
MaxRanges == 2

\* the group numbers of the host
GroupNumbers == {1, 2}

\* an entry of the log
Request(req, group, ok) == [req |-> req, group |-> group, ok |-> ok]

\* the last request of the log was refused or failed
Stopped(log) == log # <<>> /\ ~log[Len(log)].ok

\* the log followed by further requests, unless it stopped
Then(log, requests) == IF Stopped(log) THEN log ELSE log \o requests

RECURSIVE group_numbers_of(_)
\* Vec::from(groups) collected into a BTreeSet and then into a boxed slice: the
\* numbers in ascending order, without duplicates
group_numbers_of(numbers) ==
    IF numbers = {} THEN <<>>
    ELSE LET n == CHOOSE n \in numbers : \A m \in numbers : n <= m
         IN  <<n>> \o group_numbers_of(numbers \ {n})

RECURSIVE open_groups_unchecked(_, _)
\* open_group for each group in turn without the viability check (a faulty
\* variant)
open_groups_unchecked(group_numbers, k) ==
    IF group_numbers = <<>> THEN <<>>
    ELSE LET n == Head(group_numbers)
         IN  IF n \notin k.openable THEN <<Request("open_group", n, FALSE)>>
             ELSE <<Request("open_group", n, TRUE),
                    Request("vfio_group_get_status", n, TRUE)>>
                      \o open_groups_unchecked(Tail(group_numbers), k)

RECURSIVE open_groups(_, _)
\* open_group(n, noiommu) for each group number in ascending order, collected
\* into an io::Result: the first failure ends it.  A group opens and is then
\* asked for its status, which the VIABLE flag must be set in.
open_groups(group_numbers, k) ==
    IF group_numbers = <<>> THEN <<>>
    ELSE LET n == Head(group_numbers)
         IN  IF n \notin k.openable THEN <<Request("open_group", n, FALSE)>>
             ELSE IF n \notin k.viable
             THEN <<Request("open_group", n, TRUE),
                    Request("vfio_group_get_status", n, FALSE)>>
             ELSE <<Request("open_group", n, TRUE),
                    Request("vfio_group_get_status", n, TRUE)>>
                      \o open_groups(Tail(group_numbers), k)

RECURSIVE set_containers(_, _)
\* vfio_group_set_container for each group file, in the order the HashMap
\* yields them; the first failure ends it
set_containers(order, k) ==
    IF order = <<>> THEN <<>>
    ELSE IF Head(order) \notin k.attachable
    THEN <<Request("vfio_group_set_container", Head(order), FALSE)>>
    ELSE <<Request("vfio_group_set_container", Head(order), TRUE)>>
            \o set_containers(Tail(order), k)

\* Vec::sort_by_key left out: the ranges stay in the kernel's order (a faulty
\* variant)
sort_by_key_unsorted(ranges) == ranges

RECURSIVE sort_by_key(_)
\* ranges.sort_by_key(|r| r.start): a stable sort, each range put behind the
\* ranges before it that start no later
sort_by_key(ranges) ==
    IF ranges = <<>> THEN <<>>
    ELSE LET r == ranges[Len(ranges)]
             sorted == sort_by_key(SubSeq(ranges, 1, Len(ranges) - 1))
             before == {i \in DOMAIN sorted : sorted[i].start <= r.start}
             at == IF before = {} THEN 0 ELSE CHOOSE i \in before : \A j \in before : j <= i
         IN  SubSeq(sorted, 1, at) \o <<r>> \o SubSeq(sorted, at + 1, Len(sorted))

\* the overlap check left out (a faulty variant)
windows_all_unchecked(ranges) == TRUE

\* ranges.windows(2).all(|r| r[0].end <= r[1].start)
windows_all(ranges) ==
    \A i \in 1..(Len(ranges) - 1) : ranges[i].end <= ranges[i + 1].start

\* get_iommu_info(fd): the requests it adds to the log and what it returns.
\* reply.fail names the step the kernel's reply makes fail ("none": no step).
get_iommu_info(log, reply) ==
    LET iova_alignment == 2 ^ (CHOOSE z \in 0..31 :
                                  /\ Bit(reply.iova_pgsizes, z) = 1
                                  /\ \A y \in 0..(z - 1) : Bit(reply.iova_pgsizes, y) = 0)
        sorted == sort_by_key(reply.ranges)
        ranges == IF sorted # <<>> /\ sorted[1].start = 0
                  THEN (IF iova_alignment >= sorted[1].end THEN Tail(sorted)
                        ELSE <<[start |-> iova_alignment, end |-> sorted[1].end]>>
                                \o Tail(sorted))
                  ELSE sorted
        result(l, err, alignment, reported, valid) ==
            [err |-> err, log |-> l, iova_alignment |-> alignment,
             reported |-> reported, valid_iova_ranges |-> valid]
        first == Append(log, Request("vfio_iommu_get_info", 0, reply.fail # "get_info"))
        second == Append(first, Request("vfio_iommu_get_info", 0,
                                        reply.fail # "get_info_again"))
    IN  IF reply.fail \in {"get_info", "no_pgsizes"}
        THEN result(first, reply.fail, 0, <<>>, <<>>)
        ELSE IF reply.fail = "no_caps"
        THEN result(first, reply.fail, iova_alignment, <<>>, <<>>)
        ELSE IF reply.fail \in {"get_info_again", "no_iova_ranges"}
        THEN result(second, reply.fail, iova_alignment, <<>>, <<>>)
        ELSE IF ~windows_all(ranges)
        THEN result(second, "overlapping", iova_alignment, reply.ranges, <<>>)
        ELSE IF reply.fail = "no_dma_avail"
        THEN result(second, reply.fail, iova_alignment, reply.ranges, <<>>)
        ELSE result(second, "None", iova_alignment, reply.ranges, ranges)

\* the value a construction leaves: the container returned (st "Ok") or the
\* error, with the requests made
Constructed(call, group_numbers, noiommu, viable, info) ==
    [st |-> IF info.err = "None" THEN "Ok" ELSE "Err", err |-> info.err,
     call |-> call, log |-> info.log, group_numbers |-> group_numbers,
     viable |-> viable, iova_alignment |-> info.iova_alignment,
     reported |-> info.reported, valid_iova_ranges |-> info.valid_iova_ranges,
     noiommu |-> noiommu]

\* without get_iommu_info: the log as it stands, its last request deciding
NoInfo(log) ==
    [err |-> IF Stopped(log) THEN log[Len(log)].req ELSE "None", log |-> log,
     iova_alignment |-> 0, reported |-> <<>>, valid_iova_ranges |-> <<>>]

\* VfioContainer::new with the IOMMU enabled before the groups are added (a
\* faulty variant)
new_until_iommu_enabled_early(group_numbers, order, k) ==
    LET groups == open_groups(group_numbers, k)
        file == Then(groups, <<Request("open_container", 0, k.container)>>)
        version == Then(file, <<Request("vfio_get_api_version", 0, k.api_version)>>)
        extension == Then(version, <<Request("vfio_check_extension", 0, k.extension)>>)
        iommu == Then(extension, <<Request("vfio_set_iommu", 0, k.set_iommu)>>)
    IN  Then(iommu, set_containers(order, k))

\* VfioContainer::new up to the point where the IOMMU is enabled: open the
\* groups, create the container, check the API version and the extension, add
\* the groups to the container, enable the IOMMU
new_until_iommu(group_numbers, order, k) ==
    LET groups == open_groups(group_numbers, k)
        file == Then(groups, <<Request("open_container", 0, k.container)>>)
        version == Then(file, <<Request("vfio_get_api_version", 0, k.api_version)>>)
        extension == Then(version, <<Request("vfio_check_extension", 0, k.extension)>>)
        added == Then(extension, set_containers(order, k))
    IN  Then(added, <<Request("vfio_set_iommu", 0, k.set_iommu)>>)

\* the kernel's replies to a construction up to the geometry query: the groups
\* whose file opens, those it reports viable, those it lets join the container,
\* and whether the container opens, the API version is VFIO_API_VERSION, the
\* extension is reported (1) and the IOMMU is set
KernelReplies ==
    [container : BOOLEAN, openable : SUBSET GroupNumbers,
     viable : SUBSET GroupNumbers, attachable : SUBSET GroupNumbers,
     api_version : BOOLEAN, extension : BOOLEAN, set_iommu : BOOLEAN]

\* the kernel's replies to the geometry query: one that fails a step, or a page
\* size mask and up to MaxRanges IOVA ranges, the empty range [0,0) among them
IommuReplies ==
    LET addresses == {0, 2048, 4096, 8192, 12288}
        iova_ranges == {r \in [start : addresses, end : addresses] :
                            r.start < r.end \/ r = [start |-> 0, end |-> 0]}
        lists == UNION {[1..n -> iova_ranges] : n \in 0..MaxRanges}
    IN  {[ranges |-> <<>>, iova_pgsizes |-> 4096, fail |-> f] :
            f \in {"get_info", "no_pgsizes", "no_caps", "get_info_again",
                   "no_iova_ranges"}}
        \cup {[ranges |-> l, iova_pgsizes |-> p, fail |-> f] :
                f \in {"none", "no_dma_avail"}, p \in {2048, 4096, 12288}, l \in lists}

\* the group lists handed to VfioContainer::new
GroupLists == UNION {[1..n -> GroupNumbers] : n \in 0..2}

\* no container has been constructed
NoContainer ==
    [st |-> "None", err |-> "None", call |-> "none", log |-> <<>>,
     group_numbers |-> <<>>, viable |-> {}, iova_alignment |-> 0, reported |-> <<>>,
     valid_iova_ranges |-> <<>>, noiommu |-> FALSE]

\* VfioContainer::new(groups, noiommu): group_numbers is the list sorted and
\* without duplicates; order is the order the HashMap of group files iterates in
New(groups, noiommu) ==
    /\ container.call = "none"
    /\ \E k \in KernelReplies :
          LET numbers == {groups[i] : i \in DOMAIN groups}
              group_numbers == group_numbers_of(numbers)
          IN  \E order \in {o \in [1..Cardinality(numbers) -> numbers] :
                              \A i, j \in DOMAIN o : i # j => o[i] # o[j]} :
                LET log == new_until_iommu(group_numbers, order, k)
                IN  IF Stopped(log) \/ noiommu
                    THEN container' =
                            Constructed("new", group_numbers, noiommu, k.viable,
                                        NoInfo(log))
                    ELSE \E reply \in IommuReplies :
                            container' =
                                Constructed("new", group_numbers, noiommu, k.viable,
                                            get_iommu_info(log, reply))
    /\ UNCHANGED <<regionVars, mapVars, regVars, capVars, walkVars, threadVars>>

\* VfioContainer::from_raw_fds(container_fd, group, group_fd, noiommu): the
\* files are open already; the API version and the extension are checked and
\* the geometry queried
FromRawFds(group, noiommu) ==
    /\ container.call = "none"
    /\ \E api_version, extension \in BOOLEAN :
          LET version == <<Request("vfio_get_api_version", 0, api_version)>>
              log == Then(version, <<Request("vfio_check_extension", 0, extension)>>)
          IN  IF Stopped(log) \/ noiommu
              THEN container' =
                      Constructed("from_raw_fds", <<group>>, noiommu, {}, NoInfo(log))
              ELSE \E reply \in IommuReplies :
                      container' =
                          Constructed("from_raw_fds", <<group>>, noiommu, {},
                                      get_iommu_info(log, reply))
    /\ UNCHANGED <<regionVars, mapVars, regVars, capVars, walkVars, threadVars>>

(* ------------------------------------------------------------------ *)
(* Capabilities of the IOMMU info (backends/vfio/containers.rs)         *)
(*                                                                      *)
(* The second reply to vfio_iommu_get_info carries a chain of           *)
(* capability headers: walk.info.cap_offset is the offset of the first  *)
(* (0: none) and walk.info.headers gives the id and the next offset of  *)
(* the header at each offset.  get_iommu_info looks up the IOVA ranges  *)
(* and then the number of mappings available; a lookup advances one     *)
(* turn of the loop of get_iommu_cap per step.  walk.consumed is the    *)
(* set of headers the lookup has read and walk.again tells that it has  *)
(* read one of them twice.                                              *)
(*   walk.pc "idle" | "loop" | "found" | "missing"                      *)
(* ------------------------------------------------------------------ *)

\* the offsets the replies have a header at
HeaderOffsets == {32, 64}

\* the replies: every choice of first offset, and of id and next offset of
\* each header, the next offsets that lead back included
Infos ==
    [cap_offset : {0} \cup HeaderOffsets,
     headers : [HeaderOffsets -> [id : {"IOVA_RANGE", "DMA_AVAIL"},
                                 next : {0} \cup HeaderOffsets]]]

\* no lookup has been started
NoWalk ==
    [offset |-> 0, pc |-> "idle", id |-> "None",
     info |-> [cap_offset |-> 0, headers |-> <<>>], consumed |-> {}, again |-> FALSE]

\* get_iommu_cap(info, id) up to its loop
get_iommu_cap(w, id) ==
    [w EXCEPT !.pc = "loop", !.id = id, !.offset = w.info.cap_offset,
              !.consumed = {}, !.again = FALSE]

\* get_iommu_cap_iova_ranges: get_iommu_cap(VFIO_IOMMU_TYPE1_INFO_CAP_IOVA_RANGE)
GetIommuCapIovaRanges ==
    /\ walk.pc = "idle"
    /\ walk' = get_iommu_cap(walk, "IOVA_RANGE")
    /\ UNCHANGED <<regionVars, mapVars, regVars, capVars, containerVars, threadVars>>

\* get_iommu_dma_avail, once the ranges were found:
\* get_iommu_cap(VFIO_IOMMU_TYPE1_INFO_DMA_AVAIL)
GetIommuDmaAvail ==
    /\ walk.pc = "found" /\ walk.id = "IOVA_RANGE"
    /\ walk' = get_iommu_cap(walk, "DMA_AVAIL")
    /\ UNCHANGED <<regionVars, mapVars, regVars, capVars, containerVars, threadVars>>

\* a turn of the loop of get_iommu_cap, or its exit: the header at offset is
\* read, returned if its id is the one looked for, and followed to its next
\* offset otherwise
GetIommuCapLoop ==
    /\ walk.pc = "loop"
    /\ walk' = IF walk.offset = 0 THEN [walk EXCEPT !.pc = "missing"]
               ELSE LET header == walk.info.headers[walk.offset]
                        read == [walk EXCEPT !.consumed = @ \cup {walk.offset},
                                             !.again = @ \/ walk.offset \in walk.consumed]
                    IN  IF header.id = walk.id THEN [read EXCEPT !.pc = "found"]
                        ELSE [read EXCEPT !.offset = header.next]
    /\ UNCHANGED <<regionVars, mapVars, regVars, capVars, containerVars, threadVars>>

\* neither a capability scan nor a container construction has been made
InitHostIdle ==
    /\ config = [bytes |-> <<>>, len |-> 0]
    /\ scan = NoScan
    /\ container = NoContainer
    /\ walk = NoWalk
    /\ threads = <<>>

(* ------------------------------------------------------------------ *)
(* Specifications                                                       *)
(* ------------------------------------------------------------------ *)

\* the range an owning subregion is taken with before map() is called on it
OwningRanges == {RangeOf(Included(1), Excluded(3))}

\* the range of a map() of the whole region
WholeRanges == {RangeOf(Unbounded, Unbounded)}

\* the ranges handed to map()
MapRanges ==
    { RangeOf(Unbounded, Unbounded),
      RangeOf(Included(1), Excluded(3)),
      RangeOf(Included(3), Excluded(1)),
      RangeOf(Included(2), Excluded(RootLen + 2)) }

InitNest ==
    /\ InitRegion(Kinds, {"ReadWrite"}, {TRUE}, TRUE)
    /\ InitMapIdle
    /\ InitHostIdle
    /\ InitRegIdle

NextNest ==
    \/ \E range \in Ranges : Subregion(range)
    \/ AsSubregionRoot

\* subregions of subregions of the root, the calls recorded
SpecNest == InitNest /\ [][NextNest]_vars

\* the ranges that shape the view accesses go through
AccessRanges == {RangeOf(Included(1), Excluded(3))}

InitAccess ==
    /\ InitRegion(Kinds, {"ReadWrite"}, {TRUE}, FALSE)
    /\ InitMapIdle
    /\ InitHostIdle
    /\ InitRegIdle

NextAccess ==
    \/ \E range \in AccessRanges : Subregion(range)
    \/ AsSubregionRoot
    \/ \E via \in Vias, offset \in AccessOffsets, n \in BufferLens :
          ReadBytes(via, offset, n)
    \/ \E op \in ReadOps, via \in Vias, offset \in AccessOffsets :
          ReadTyped(op, via, offset)
    \/ \E op \in WriteOps, via \in Vias, offset \in AccessOffsets :
          \E value \in Values(op) : WriteTyped(op, via, offset, value)

\* reads and writes through the root region and through a subregion of it
SpecAccess == InitAccess /\ [][NextAccess]_vars

\* the register is one of a device's configuration space, a VFIO region
InitReg ==
    /\ InitRegion({"vfio"}, {"ReadWrite"}, {FALSE}, FALSE)
    /\ InitMapIdle
    /\ InitHostIdle
    /\ regDef \in RegisterDefs
    /\ reg \in RegOffsets
    /\ regLog = RegCall("init", 0, 0, RegResult("Ok", "None", 0, <<>>, mem))

NextReg ==
    \/ \E i \in ElemIndices : ClearBit(i)
    \/ \E i \in ElemIndices, value \in BOOLEAN : WriteBit(i, value)
    \/ \E i \in ElemIndices : ReadBit(i)
    \/ \E i \in ElemIndices, value \in BitsValues : WriteBits(i, value)
    \/ \E i \in ElemIndices : ReadBits(i)
    \/ \E value \in RegSamples : WriteRegister(value)

\* accessors of one bit-field register
SpecReg == InitReg /\ [][NextReg]_vars

InitView ==
    /\ InitRegion(Kinds, {"ReadWrite"}, {TRUE}, FALSE)
    /\ InitMapIdle
    /\ InitHostIdle
    /\ InitRegIdle

NextView ==
    \/ \E range \in Ranges : Subregion(range)
    \/ AsSubregionRoot
    \/ AsSubregionOwning
    \/ \E range \in Ranges : OwningSubregion(range)
    \/ DropOwning
    \/ Bar

\* building views: subregion(), owning_subregion(), as_subregion()
SpecView == InitView /\ [][NextView]_vars

InitMap ==
    /\ InitRegion({"vfio"}, AllPermissions, BOOLEAN, FALSE)
    /\ InitMapIdle
    /\ InitHostIdle
    /\ InitRegIdle

NextMap ==
    \/ \E range \in OwningRanges : OwningSubregion(range)
    \/ \E range \in MapRanges, p \in AllPermissions, accepted \in BOOLEAN :
          Map(range, p, accepted)
    \/ \E i \in 1..MaxMappings : DropMapped(i)

\* owning regions, map() and the drop of what map() returned
SpecMap == InitMap /\ [][NextMap]_vars

InitLife ==
    /\ InitRegion({"vfio"}, {"ReadWrite"}, {TRUE}, FALSE)
    /\ InitMapIdle
    /\ InitHostIdle
    /\ InitRegIdle

NextLife ==
    \/ Bar
    \/ \E range \in OwningRanges : OwningSubregion(range)
    \/ \E range \in WholeRanges, accepted \in BOOLEAN :
          Map(range, "ReadWrite", accepted)
    \/ DropOwning
    \/ \E i \in 1..MaxMappings : DropMapped(i)
    \/ DropDevice

\* the lifetimes of the device, its owning regions and its mappings
SpecLife == InitLife /\ [][NextLife]_vars

InitPerm ==
    /\ InitRegion(Kinds, AllPermissions, {TRUE}, FALSE)
    /\ InitMapIdle
    /\ InitHostIdle
    /\ InitRegIdle

NextPerm ==
    \/ \E range \in AccessRanges : Subregion(range)
    \/ AsSubregionRoot
    \/ \E op \in {"as_ptr", "as_mut_ptr"}, via \in Vias : AsPtr(op, via)
    \/ \E op \in ReadOps, via \in Vias, offset \in AccessOffsets :
          ReadTyped(op, via, offset)
    \/ \E op \in WriteOps, via \in Vias, offset \in AccessOffsets :
          \E value \in Values(op) : WriteTyped(op, via, offset, value)

\* pointers and accesses on regions of every kind and permission
SpecPerm == InitPerm /\ [][NextPerm]_vars

\* a register with several RW fields, and two threads in no call
InitRace ==
    /\ InitRegion({"vfio"}, {"ReadWrite"}, {FALSE}, FALSE)
    /\ InitMapIdle
    /\ regDef \in {PciCommand, MsiMessageControl, EveryMode}
    /\ reg \in RegOffsets
    /\ regLog = RegCall("init", 0, 0, RegResult("Ok", "None", 0, <<>>, mem))
    /\ config = [bytes |-> <<>>, len |-> 0]
    /\ scan = NoScan
    /\ container = NoContainer
    /\ walk = NoWalk
    /\ threads = [t \in ThreadIds |-> IdleThread]

NextRace ==
    \/ \E t \in ThreadIds, i \in ElemIndices, value \in {0, 1, 2, 5} :
          ThreadRead(t, i, value)
    \/ \E t \in ThreadIds : ThreadWrite(t)

\* one field write by each of two threads, their steps interleaved
SpecRace == InitRace /\ [][NextRace]_vars

\* a configuration space with no scan of it started yet
InitCapScan ==
    /\ InitRegion({"memory"}, {"ReadWrite"}, {FALSE}, FALSE)
    /\ overflowChecks = FALSE
    /\ mappings = <<>> /\ unmapLog = <<>> /\ deviceLive = TRUE /\ fileOpen = TRUE
    /\ InitRegIdle
    /\ config \in Configs
    /\ scan = NoScan
    /\ container = NoContainer
    /\ walk = NoWalk
    /\ threads = <<>>

NextCapScan ==
    \/ BackedBy
    \/ LegacyLoop
    \/ BackedByExtended
    \/ OfType
    \/ ExtendedLoop
    \/ Iter
    \/ \E C \in CapabilityTypes : OfTypeCapability(C)

\* one scan of the capabilities or of the extended capabilities of a
\* configuration space, and iter() on its result
SpecCapScan == InitCapScan /\ [][NextCapScan]_vars

\* the scan is a sequential function: a step that can be taken is taken
FairCapScan == SpecCapScan /\ WF_vars(NextCapScan)

InitContainer ==
    /\ InitRegion({"vfio"}, {"ReadWrite"}, {FALSE}, FALSE)
    /\ overflowChecks = FALSE
    /\ mappings = <<>> /\ unmapLog = <<>> /\ deviceLive = TRUE /\ fileOpen = TRUE
    /\ InitRegIdle
    /\ config = [bytes |-> <<>>, len |-> 0]
    /\ scan = NoScan
    /\ container = NoContainer
    /\ walk = NoWalk
    /\ threads = <<>>

NextContainer ==
    \/ \E groups \in GroupLists, noiommu \in BOOLEAN : New(groups, noiommu)
    \/ \E group \in GroupNumbers, noiommu \in BOOLEAN : FromRawFds(group, noiommu)

\* one construction of a VfioContainer
SpecContainer == InitContainer /\ [][NextContainer]_vars

\* the second reply to vfio_iommu_get_info has arrived
InitIommuCap ==
    /\ InitRegion({"vfio"}, {"ReadWrite"}, {FALSE}, FALSE)
    /\ overflowChecks = FALSE
    /\ mappings = <<>> /\ unmapLog = <<>> /\ deviceLive = TRUE /\ fileOpen = TRUE
    /\ InitRegIdle
    /\ config = [bytes |-> <<>>, len |-> 0]
    /\ scan = NoScan
    /\ container = NoContainer
    /\ walk \in {[NoWalk EXCEPT !.info = info] : info \in Infos}
    /\ threads = <<>>

NextIommuCap ==
    \/ GetIommuCapIovaRanges
    \/ GetIommuCapLoop
    \/ GetIommuDmaAvail

\* the lookups get_iommu_info makes in the reply; get_iommu_cap is sequential
\* code, so a turn of its loop that can be taken is taken
FairIommuCap == InitIommuCap /\ [][NextIommuCap]_vars /\ WF_vars(NextIommuCap)

(* ------------------------------------------------------------------ *)
(* Properties                                                           *)
(* ------------------------------------------------------------------ *)

AccessOps == {"read_bytes"} \cup ReadOps \cup WriteOps

\* C1: on every region kind (root memory region, root VFIO region, subregion
\* view) a read or write of a nonzero length len at an offset with
\* offset + len > region.len() fails with the OutOfBounds error.
C1_OutOfBoundsAccessFails ==
    (/\ last.op \in AccessOps
     /\ last.n > 0
     /\ last.offset + last.n > ViaLen(last.via))
        => (last.st = "Err" /\ last.err = "OutOfBounds")

\* the range a..b that the nested pair hist[1], hist[2] composes to on the root
ComposedRange ==
    LET a == clamp_range(hist[1], RootView.length)
        b == clamp_range(hist[2], a.end - a.start)
    IN  RangeOf(Included(a.start + b.start), Excluded(a.start + b.end))

\* C2: the view built by subregion(subregion(R, a..b), c..d) is one (offset,
\* length) pair on the root R, equal to the single subregion of R built from
\* the composed offsets, and every read and write at every offset has the same
\* outcomes (bytes, failure, forwarded root offset) through both.
C2_NestedEqualsComposed ==
    (recording /\ Len(hist) = 2) =>
        LET single == subregion(RootView, ComposedRange)
            sv == [offset |-> single.offset, length |-> single.length]
        IN  /\ ~single.panic
            /\ DOMAIN view = {"offset", "length"}
            /\ view = sv
            /\ \A op \in AccessOps, offset \in AccessOffsets, n \in BufferLens :
                  \A value \in Values(op) :
                      subregion_access(view, op, offset, n, value, mem)
                          = subregion_access(sv, op, offset, n, value, mem)

\* C2 witness: two nested proper subregions, 1.. and then 1..3 of it
C2_Witness ==
    /\ recording
    /\ Len(hist) = 2
    /\ hist[1] = RangeOf(Included(1), Unbounded)
    /\ hist[2] = RangeOf(Included(1), Excluded(3))
    /\ view = [offset |-> 2, length |-> 2]

\* C3: after any sequence of subregion() and owning_subregion() calls every
\* view and every owning region lies inside the root: offset + length is at
\* most the root region's length.
C3_ViewsWithinRoot ==
    /\ view.offset + view.length <= region.length
    /\ ownLive > 0 => own.offset + own.length <= region.length

\* C3 witness: a subregion asked for with an end beyond len(), taken while the
\* owning region is itself a proper owning subregion
C3_Witness ==
    /\ last.op = "subregion"
    /\ last.st = "Ok"
    /\ last.range = RangeOf(Included(2), Excluded(RootLen + 2))
    /\ view.offset > 0
    /\ view.length > 0
    /\ ownLive > 0
    /\ own.offset > 0

\* C4: on a readable and writable region, a read_bytes of the bytes that the
\* call just before wrote in bounds (through the same or another view of the
\* root) succeeds and returns exactly the data written.
C4_ReadBackWritten ==
    (last.op = "read_bytes" /\ last.wrote # <<>>)
        => (last.st = "Ok" /\ last.data = last.wrote)

\* C4 witness: two bytes written through one view and read back through the other
C4_Witness ==
    /\ last.op = "read_bytes"
    /\ last.via = "root"
    /\ last.offset > 0
    /\ Len(last.wrote) = 2
    /\ last.data = last.wrote
    /\ view.offset > 0

UnmapCount(ptr, length) ==
    Cardinality({i \in DOMAIN unmapLog : unmapLog[i] = <<ptr, length>>})

DroppedCount(ptr, length) ==
    Cardinality({i \in DOMAIN mappings :
                    /\ ~mappings[i].live
                    /\ mappings[i].ptr = ptr
                    /\ mappings[i].length = length})

\* C5: the unmap requests made so far are exactly one per destroyed
\* MappedRegion, with the pointer and length it was created with: none for a
\* mapping still alive, none for a failed map(), none twice.
C5_OneUnmapPerMapping ==
    /\ Len(unmapLog) = Cardinality(DOMAIN mappings \ LiveMappings(mappings))
    /\ \A i \in DOMAIN unmapLog :
          UnmapCount(unmapLog[i][1], unmapLog[i][2])
              = DroppedCount(unmapLog[i][1], unmapLog[i][2])
    /\ \A i \in DOMAIN mappings :
          ~mappings[i].live =>
              UnmapCount(mappings[i].ptr, mappings[i].length)
                  = DroppedCount(mappings[i].ptr, mappings[i].length)

\* C5 witness: the one mapping made was destroyed and unmapped, and a later map() failed
C5_Witness ==
    /\ Len(unmapLog) = 1
    /\ Len(mappings) = 1
    /\ LiveMappings(mappings) = {}
    /\ unmapLog[1] = <<mappings[1].ptr, mappings[1].length>>
    /\ last.op = "map"
    /\ last.st = "Err"

\* C6: map() on a region whose mappable flag is false fails and issues no
\* mapping request to the device handle.
C6_NotMappableMapFails ==
    (last.op = "map" /\ ~region.is_mappable)
        => (last.st = "Err" /\ ~last.requested)

\* the requested permissions include an access the region's permissions lack
Exceeds(permissions) ==
    \/ (can_read(permissions) /\ ~can_read(region.permissions))
    \/ (can_write(permissions) /\ ~can_write(region.permissions))

C8_FileOutlivesMappings ==
    ~fileOpen =>
        /\ LiveMappings(mappings) = {}
        /\ Len(unmapLog) = Len(mappings)
        /\ ownLive = 0
        /\ ~deviceLive

\* C8 witness: the file was closed after a mapping had been made and unmapped
C8_Witness ==
    /\ ~fileOpen
    /\ Len(unmapLog) > 0

\* the bits of a definition that belong to an RW1C or an RsvdZ element
ClearedBits(def) ==
    {q \in 0..(def.bits - 1) :
        \E i \in DOMAIN def.elems :
            /\ def.elems[i].mode \in {"RW1C", "RsvdZ"}
            /\ def.elems[i].first <= q
            /\ q <= def.elems[i].last}

\* C9: the WRITE_MASK of the register definition in use has, of the bits of
\* the register's width, exactly the bits of its RW1C and RsvdZ elements 0
\* and every other bit 1; for u8 with RsvdZ at 3 and 6--7 it is 0b0011_0111
\* and for u16 with RW1C at 8 and RsvdZ at 1--2 it is
\* 0xFFFF & ~(1<<8) & ~(0b11<<1).
C9_WriteMaskClearsRW1CAndRsvdZ ==
    regDef # NoRegister =>
        /\ regDef.WRITE_MASK \in 0..(2 ^ regDef.bits - 1)
        /\ \A q \in 0..(regDef.bits - 1) :
              Bit(regDef.WRITE_MASK, q) = IF q \in ClearedBits(regDef) THEN 0 ELSE 1
        /\ regDef.name = "TestRsvdZ" => regDef.WRITE_MASK = 55
        /\ regDef.name = "OneClearBit" => regDef.WRITE_MASK = 65535 - 256 - 6

\* C9 witness: the mask of the u16 example was used by a clear() that succeeded
C9_Witness ==
    /\ regDef.name = "OneClearBit"
    /\ regLog.op = "clear"
    /\ regLog.st = "Ok"
    /\ Len(regLog.acc) = 2

\* C10: clear() on the RW1C bit at p reads the register once and then writes
\* it once, with bit p 1 and every other RW1C bit and every RsvdZ bit 0,
\* whatever the read returned.
C10_ClearWritesOneToBit ==
    regLog.op = "clear" =>
        LET p == regDef.elems[regLog.field].first
        IN  /\ Len(regLog.acc) = 2
            /\ regLog.acc[1].k = "read"
            /\ regLog.acc[2].k = "write"
            /\ Bit(regLog.acc[2].v, p) = 1
            /\ \A q \in ClearedBits(regDef) \ {p} : Bit(regLog.acc[2].v, q) = 0

\* C10 witness: a Status bit cleared while the register read all ones
C10_Witness ==
    /\ regLog.op = "clear"
    /\ regDef.name = "PciStatus"
    /\ Len(regLog.acc) = 2
    /\ regLog.acc[1].v = 2 ^ 16 - 1
    /\ regLog.st = "Ok"

\* the bits of element i of the register definition in use
FieldBits(i) == regDef.elems[i].first..regDef.elems[i].last

\* the bits of a definition that belong to an RsvdZ element
RsvdZBits(def) ==
    {q \in 0..(def.bits - 1) :
        \E i \in DOMAIN def.elems :
            /\ def.elems[i].mode = "RsvdZ"
            /\ def.elems[i].first <= q
            /\ q <= def.elems[i].last}

\* C11: a write through an RW bit or an RW bit range that reached the register
\* wrote a value that differs from the value it had just read only in the bits
\* of the target field and in RW1C and RsvdZ bits, which it wrote as 0; every
\* other bit (RO, RsvdP, left out, another RW field) was written as read.
C11_WriteKeepsOtherBits ==
    (regLog.op \in {"write_bit", "write_bits"} /\ Len(regLog.acc) = 2) =>
        /\ regLog.acc[1].k = "read"
        /\ regLog.acc[2].k = "write"
        /\ \A q \in (0..(regDef.bits - 1)) \ FieldBits(regLog.field) :
              Bit(regLog.acc[2].v, q) =
                  IF q \in ClearedBits(regDef) THEN 0 ELSE Bit(regLog.acc[1].v, q)

\* C11 witness: a bit range of the register with an element of every mode was
\* written while every bit of the register read 1
C11_Witness ==
    /\ regLog.op = "write_bits"
    /\ regDef.name = "EveryMode"
    /\ Len(regLog.acc) = 2
    /\ regLog.acc[1].v = 2 ^ 8 - 1
    /\ regLog.value = 1
    /\ regLog.st = "Ok"

\* every register write the last accessor call issued has 0 in every RsvdZ bit
RsvdZWrittenZero ==
    \A a \in DOMAIN regLog.acc :
        regLog.acc[a].k = "write" =>
            \A q \in RsvdZBits(regDef) : Bit(regLog.acc[a].v, q) = 0

\* C12 as stated: every register write issued by an RW bit write, an RW
\* bit-range write, a clear() or the whole-register write(value) has 0 in
\* every RsvdZ bit, for every value passed and every register content.
C12_RsvdZZeroOnEveryWrite ==
    regLog.op \in {"write_bit", "write_bits", "clear", "write"} => RsvdZWrittenZero

\* C12 amended: every register write issued by an RW bit write, an RW bit-range
\* write or a clear() has 0 in every RsvdZ bit, for every value passed and
\* every register content; the whole-register write(value) writes the value
\* as it is passed.
C12_RsvdZZeroOnFieldWrites ==
    /\ regLog.op \in {"write_bit", "write_bits", "clear"} => RsvdZWrittenZero
    /\ regLog.op = "write" =>
          /\ Len(regLog.acc) = 1
          /\ regLog.acc[1].k = "write"
          /\ regLog.acc[1].v = regLog.value

\* C12 witness: a bit range written while the RsvdZ bit of the register read 1
C12_Witness ==
    /\ regLog.op = "write_bits"
    /\ regLog.st = "Ok"
    /\ Len(regLog.acc) = 2
    /\ RsvdZBits(regDef) # {}
    /\ \A q \in RsvdZBits(regDef) : Bit(regLog.acc[1].v, q) = 1
    /\ regLog.acc[2].k = "write"

(* ------------------------------------------------------------------ *)
(* Capability scans                                                     *)
(* ------------------------------------------------------------------ *)

\* where a walk of the given kind starts: the capabilities pointer masked to a
\* multiple of 4, or 0x100
FirstOf(c, kind) == IF kind = "legacy" THEN BitAnd(ByteAt(c, 52), 252) ELSE 256

\* the node the header at `at` links to
NextOf(c, kind, at) ==
    IF kind = "legacy" THEN BitAnd(ByteAt(c, at + 1), 252)
    ELSE BitAnd(ByteAt(c, at + 2) \div 16 + 16 * ByteAt(c, at + 3), 65532)

\* the capability ID in the header at `at`
IdOf(c, kind, at) ==
    IF kind = "legacy" THEN ByteAt(c, at) ELSE ByteAt(c, at) + 256 * ByteAt(c, at + 1)

\* a scan has returned a list
Returned == scan.pc \in {"done", "iterated"} /\ scan.st = "Ok"

\* a forward chain of four capabilities with the IDs 0x01, 0x05, 0x10, 0x11
ForwardConfig ==
    MakeConfig(256, TRUE, 64,
               <<[at |-> 64, id |-> 1, next |-> 80], [at |-> 80, id |-> 5, next |-> 128],
                 [at |-> 128, id |-> 16, next |-> 252],
                 [at |-> 252, id |-> 17, next |-> 0]>>, <<>>)

\* C13: the list a legacy or an extended scan returns is in discovery order, not
\* in offset order: it starts where the walk starts, each entry is the node the
\* entry before it links to, the last entry links to nothing, no node is listed
\* twice, and iter() yields the IDs of the entries in that order.  The forward
\* chain with the IDs [0x01, 0x05, 0x10, 0x11] yields exactly those IDs in that
\* order.
C13_DiscoveryOrder ==
    /\ Returned =>
          LET l == scan.cap_subregions
          IN  /\ l # <<>> => /\ l[1] = FirstOf(config, scan.kind)
                             /\ NextOf(config, scan.kind, l[Len(l)]) = 0
              /\ \A i \in 1..(Len(l) - 1) : l[i + 1] = NextOf(config, scan.kind, l[i])
              /\ \A i, j \in DOMAIN l : i # j => l[i] # l[j]
              /\ scan.pc = "iterated" =>
                    scan.ids = [i \in DOMAIN l |-> IdOf(config, scan.kind, l[i])]
    /\ config = ForwardConfig /\ scan.kind = "legacy" /\ scan.pc = "iterated" =>
          scan.ids = <<1, 5, 16, 17>>

\* a legacy and an extended list of several entries that is not in ascending
\* offset order has been iterated, and so has the forward chain
C13_Witness ==
    /\ scan.pc = "iterated" /\ scan.kind = "legacy"
    /\ scan.cap_subregions = <<128, 64, 252, 80>>
    /\ scan.ids = <<1, 5, 16, 17>>

\* the walk is about to visit a node it has visited before
Revisit ==
    /\ scan.pc \in {"legacy_loop", "extended_loop"}
    /\ \E i \in DOMAIN scan.cap_subregions : scan.cap_subregions[i] = scan.next_cap_offset

\* the scan has returned, and iter() or of_type() has run on a list returned
Finished == scan.pc \in {"iterated", "typed"} \/ (scan.pc = "done" /\ scan.st = "Err")

\* the entries of scan.cap_subregions are of the legacy list: the scan is a
\* legacy scan, or an extended scan that has not come to its own walk
WalksLegacy ==
    scan.kind = "legacy" \/ scan.pc \in {"legacy_loop", "of_type"} \/ scan.legacy = <<>>

\* C14: for every content of the configuration space the legacy and the
\* extended walk terminate; a walk visits at most ITERATIONS_UPPER_BOUND entries
\* (0xC0 legacy, 0x780 extended); a walk whose next pointer leads back to a node
\* already visited never returns a list: it fails with InvalidInput (capability
\* list cycle).
C14_WalksTerminate ==
    /\ [](/\ Len(scan.cap_subregions) <= (IF WalksLegacy THEN 192 ELSE 1920)
          /\ Len(scan.legacy) <= 192)
    /\ <>Finished
    /\ Revisit ~> (scan.pc = "done" /\ scan.st = "Err" /\ scan.err = "Cycle")
    /\ [](Revisit => [](~Returned))

\* an extended walk that went round a cycle has failed after the greatest number
\* of entries
C14_Witness ==
    /\ scan.pc = "done" /\ scan.st = "Err" /\ scan.err = "Cycle"
    /\ scan.kind = "extended"
    /\ Len(scan.cap_subregions) = 1920
    /\ Len(scan.legacy) = 3

\* the offset lies inside the legacy window [0x40, 0x100)
InLegacyWindow(at) == 64 <= at /\ at < 256

\* the offset lies inside the extended window [0x100, 0x1000) and is even
InExtendedWindow(at) == 256 <= at /\ at < 4096 /\ at % 2 = 0

\* the walk is at a next offset that is not 0 and lies outside its window
Strayed ==
    /\ scan.next_cap_offset # 0
    /\ \/ scan.pc = "legacy_loop" /\ ~InLegacyWindow(scan.next_cap_offset)
       \/ scan.pc = "extended_loop" /\ ~InExtendedWindow(scan.next_cap_offset)

\* C15: every offset a capability walk visits lies inside the legal window,
\* [0x40, 0x100) for the legacy walk, [0x100, 0x1000) and even for the extended
\* walk, so every entry of a list returned starts inside the window; a next
\* offset that is not 0 and lies outside the window makes the scan fail with
\* InvalidInput without visiting it.
C15_VisitedInsideWindow ==
    /\ [](/\ \A i \in DOMAIN scan.cap_subregions :
                IF WalksLegacy THEN InLegacyWindow(scan.cap_subregions[i])
                ELSE InExtendedWindow(scan.cap_subregions[i])
          /\ \A i \in DOMAIN scan.legacy : InLegacyWindow(scan.legacy[i]))
    /\ [][Strayed => /\ scan'.pc = "done" /\ scan'.st = "Err"
                      /\ scan'.err \in {"OutOfWindow", "Unaligned"}
                      /\ scan'.cap_subregions = scan.cap_subregions
                      /\ scan'.reads = scan.reads]_vars

\* a legacy walk has failed at a next offset below the window after four
\* entries inside it
C15_Witness ==
    /\ scan.pc = "done" /\ scan.st = "Err" /\ scan.err = "OutOfWindow"
    /\ scan.kind = "legacy"
    /\ scan.next_cap_offset = 60
    /\ Len(scan.cap_subregions) = 4

\* the list holds a PCI Express capability (ID 0x10)
HasPciExpress(l) == \E i \in DOMAIN l : ByteAt(config, l[i]) = 16

\* the capabilities-list bit (bit 4) of the status register (0x06)
CapabilitiesList == Bit(ByteAt(config, 6) + 256 * ByteAt(config, 7), 4) = 1

\* C16: the extended scan of a configuration space of at least 0x1000 bytes
\* whose legacy capability list holds no PCI Express capability (ID 0x10)
\* returns an empty result, and no byte at offset 0x100 or above is read unless
\* the legacy list holds one; the legacy scan returns an empty result without
\* reading the capabilities pointer (0x34) when the capabilities-list bit of the
\* status register is 0.
C16_ShortCircuits ==
    /\ []((\E a \in scan.reads : a >= 256) => HasPciExpress(scan.legacy))
    /\ [][scan.pc = "of_type" /\ ~HasPciExpress(scan.cap_subregions) =>
            /\ config.len >= 4096
            /\ scan'.pc = "done" /\ scan'.st = "Ok"
            /\ scan'.cap_subregions = <<>>
            /\ \A a \in scan'.reads : a < 256]_vars
    /\ [](~CapabilitiesList =>
            /\ 52 \notin scan.reads
            /\ scan.cap_subregions = <<>>
            /\ scan.kind = "legacy" /\ scan.pc = "done" /\ config.len >= 256 =>
                  scan.st = "Ok")

\* an extended scan has returned an empty result for a device with two legacy
\* capabilities, neither of them PCI Express, and with data at 0x100
C16_Witness ==
    /\ scan.kind = "extended" /\ scan.pc = "done" /\ scan.st = "Ok"
    /\ config.len = 4096
    /\ scan.legacy = <<80, 64>>
    /\ ~HasPciExpress(scan.legacy)
    /\ ByteAt(config, 256) # 0
    /\ scan.cap_subregions = <<>>

\* C23: typed capability construction (backed_by / of_type) never yields a
\* capability on a subregion that is not big enough for it: every capability
\* it yields has a region as long as the length its type gives, never a
\* shorter one cut off at the end of the window.
C23_TypedLengthExact ==
    scan.pc = "typed" =>
        \A i \in DOMAIN scan.typed :
            \E C \in CapabilityTypes :
                /\ ByteAt(config, scan.typed[i].at) = C.id
                /\ scan.typed[i].length = C.length

(* ------------------------------------------------------------------ *)
(* VFIO containers                                                      *)
(* ------------------------------------------------------------------ *)

\* the requests of the log, in order
Requests == [i \in DOMAIN container.log |-> container.log[i].req]

\* a request of that name was issued
Issued(req) == \E i \in DOMAIN container.log : container.log[i].req = req

\* C17: VfioContainer::new for groups of which one is not reported viable by the
\* kernel fails, and in that execution the container file is not opened, no
\* group is added to a container and no request to set the IOMMU is issued.
C17_NotViableFailsEarly ==
    (/\ container.call = "new"
     /\ \E i \in DOMAIN container.group_numbers :
           container.group_numbers[i] \notin container.viable) =>
        /\ container.st = "Err"
        /\ ~Issued("open_container")
        /\ ~Issued("vfio_group_set_container")
        /\ ~Issued("vfio_set_iommu")
        /\ ~Issued("vfio_iommu_get_info")

\* new has failed for the groups 1 and 2 at the status of group 2, which the
\* kernel does not report viable, after group 1 was opened and found viable
C17_Witness ==
    /\ container.call = "new" /\ container.st = "Err"
    /\ container.group_numbers = <<1, 2>>
    /\ container.viable = {1}
    /\ Requests = <<"open_group", "vfio_group_get_status", "open_group",
                    "vfio_group_get_status">>
    /\ container.err = "vfio_group_get_status"

\* the step of a construction a request belongs to: 1 open and validate the
\* groups, 2 create the container handle, 3 verify the API version, 4 verify
\* the IOMMU model extension, 5 attach the groups, 6 activate the IOMMU model,
\* 7 query the IOMMU geometry
StepOf(req) ==
    CASE req \in {"open_group", "vfio_group_get_status"} -> 1
      [] req = "open_container" -> 2
      [] req = "vfio_get_api_version" -> 3
      [] req = "vfio_check_extension" -> 4
      [] req = "vfio_group_set_container" -> 5
      [] req = "vfio_set_iommu" -> 6
      [] req = "vfio_iommu_get_info" -> 7

\* the request was issued for the group and succeeded
Done(req, group) ==
    \E i \in DOMAIN container.log : container.log[i] = Request(req, group, TRUE)

\* every requested group was opened and validated / attached to the container
AllGroups(req) ==
    \A i \in DOMAIN container.group_numbers : Done(req, container.group_numbers[i])

\* the steps issued occur in the order of their numbers, and a request is
\* issued only if every request before it succeeded
StepsInOrder ==
    /\ \A i, j \in DOMAIN container.log :
          i < j => StepOf(container.log[i].req) <= StepOf(container.log[j].req)
    /\ \A i \in 1..(Len(container.log) - 1) : container.log[i].ok

\* a step is issued only after the steps before it were carried out in full
StepsComplete ==
    /\ Issued("open_container") =>
          AllGroups("open_group") /\ AllGroups("vfio_group_get_status")
    /\ Issued("vfio_get_api_version") => Done("open_container", 0)
    /\ Issued("vfio_check_extension") => Done("vfio_get_api_version", 0)
    /\ Issued("vfio_group_set_container") => Done("vfio_check_extension", 0)
    /\ Issued("vfio_set_iommu") =>
          Done("vfio_check_extension", 0) /\ AllGroups("vfio_group_set_container")
    /\ Issued("vfio_iommu_get_info") => Done("vfio_set_iommu", 0)

\* C18 as stated: every construction takes the seven steps in order, each only
\* if all the steps before it succeeded, and returns a container only if all
\* seven succeeded.
C18_AllStepsInOrder ==
    container.call # "none" =>
        /\ StepsInOrder
        /\ StepsComplete
        /\ container.st = "Ok" =>
              /\ \A i \in DOMAIN container.log : container.log[i].ok
              /\ Done("vfio_set_iommu", 0)
              /\ Done("vfio_iommu_get_info", 0)

\* C18: in every construction the steps that run occur in the order open and
\* validate every group, create the container handle, verify the API version,
\* verify the IOMMU model extension, attach every group, activate the IOMMU
\* model, query the IOMMU geometry, and each runs only if all the steps before
\* it succeeded.  VfioContainer::new takes all of them, but for a no-IOMMU
\* container it does not query the geometry; it never activates the IOMMU model
\* before every requested group is attached.  VfioContainer::from_raw_fds only
\* verifies the API version and the extension and, unless no-IOMMU, queries
\* the geometry.  A container is returned only if every step that ran
\* succeeded.
C18_StepsInOrder ==
    container.call # "none" =>
        /\ StepsInOrder
        /\ container.call = "new" => StepsComplete
        /\ container.call = "from_raw_fds" =>
              \A i \in DOMAIN container.log :
                  StepOf(container.log[i].req) \in {3, 4, 7}
        /\ container.noiommu => ~Issued("vfio_iommu_get_info")
        /\ container.st = "Ok" =>
              /\ \A i \in DOMAIN container.log : container.log[i].ok
              /\ Done("vfio_get_api_version", 0) /\ Done("vfio_check_extension", 0)
              /\ container.call = "new" =>
                    /\ Done("open_container", 0)
                    /\ AllGroups("vfio_group_get_status")
                    /\ AllGroups("vfio_group_set_container")
                    /\ Done("vfio_set_iommu", 0)
              /\ ~container.noiommu =>
                    Len(SelectSeq(Requests, LAMBDA r : r = "vfio_iommu_get_info")) = 2

\* new has returned a no-IOMMU container for the groups 1 and 2 without a
\* geometry query
C18_Witness ==
    /\ container.call = "new" /\ container.st = "Ok"
    /\ container.noiommu
    /\ container.group_numbers = <<1, 2>>
    /\ Requests = <<"open_group", "vfio_group_get_status", "open_group",
                    "vfio_group_get_status", "open_container", "vfio_get_api_version",
                    "vfio_check_extension", "vfio_group_set_container",
                    "vfio_group_set_container", "vfio_set_iommu">>
    /\ container.log[8].group = 2

\* how often the range occurs in the list
Count(ranges, r) == Cardinality({i \in DOMAIN ranges : ranges[i] = r})

\* the geometry query has returned ranges
GeometryReturned == container.st = "Ok" /\ ~container.noiommu

\* two of the ranges the kernel reported overlap
ReportedOverlap ==
    \E i, j \in DOMAIN container.reported :
        /\ i # j
        /\ container.reported[i].start < container.reported[j].end
        /\ container.reported[j].start < container.reported[i].end

\* C19: the ranges the geometry query returns are the ranges the kernel
\* reported, sorted ascending by start and otherwise unchanged, except that when
\* the first sorted range begins at 0 its start is advanced to the alignment
\* and the range is dropped if that leaves it empty: [[0,0x1000),[0x2000,0x3000)]
\* with alignment 0x1000 yields [[0x2000,0x3000)].  Ranges that are not empty
\* and of which no two overlap are not rejected as overlapping, in whatever
\* order they are reported.
C19_RangesSortedAndAdjusted ==
    /\ (/\ container.err = "overlapping"
        /\ \A i \in DOMAIN container.reported :
              container.reported[i].start < container.reported[i].end) =>
          ReportedOverlap
    /\ GeometryReturned =>
           LET reported == container.reported
               valid == container.valid_iova_ranges
               zeros == {i \in DOMAIN reported : reported[i].start = 0}
               first == reported[CHOOSE i \in zeros : \A j \in zeros : i <= j]
               advanced == [start |-> container.iova_alignment, end |-> first.end]
               all == {reported[i] : i \in DOMAIN reported}
                         \cup {valid[i] : i \in DOMAIN valid}
           IN  /\ \A i, j \in DOMAIN valid : i < j => valid[i].start <= valid[j].start
               /\ zeros = {} => \A r \in all : Count(valid, r) = Count(reported, r)
               /\ zeros # {} =>
                     \A r \in all \cup {advanced} :
                         Count(valid, r) =
                             Count(reported, r) - (IF r = first THEN 1 ELSE 0)
                                 + (IF r = advanced /\ advanced.start < advanced.end
                                    THEN 1 ELSE 0)
               /\ (/\ reported = <<[start |-> 0, end |-> 4096],
                                    [start |-> 8192, end |-> 12288]>>
                    /\ container.iova_alignment = 4096) =>
                     valid = <<[start |-> 8192, end |-> 12288]>>

\* the kernel reported [0x2000,0x3000) before [0,0x1000), the alignment is
\* 0x1000, and the query has returned [[0x2000,0x3000)]
C19_Witness ==
    /\ GeometryReturned
    /\ container.reported = <<[start |-> 8192, end |-> 12288],
                              [start |-> 0, end |-> 4096]>>
    /\ container.iova_alignment = 4096
    /\ container.valid_iova_ranges = <<[start |-> 8192, end |-> 12288]>>

\* C20: whenever two of the ranges the kernel reported overlap, the geometry
\* query, and with it the construction, fails instead of returning ranges;
\* [[0,0x1000),[0x800,0x2000)] is rejected as overlapping.
C20_OverlapRejected ==
    /\ ReportedOverlap => container.st = "Err"
    /\ container.reported = <<[start |-> 0, end |-> 4096],
                              [start |-> 2048, end |-> 8192]>> =>
          container.err = "overlapping"

\* C21: for every container constructed and every reply of the kernel,
\* valid_iova_ranges() is sorted ascending by start and no range overlaps the
\* range after it (range[i].end <= range[i+1].start), also after the start of
\* the first range has been advanced past address 0.
C21_ValidRangesSortedDisjoint ==
    container.st = "Ok" =>
        LET valid == container.valid_iova_ranges
        IN  /\ \A i, j \in DOMAIN valid : i < j => valid[i].start <= valid[j].start
            /\ \A i \in 1..(Len(valid) - 1) : valid[i].end <= valid[i + 1].start

\* a container whose first range [0,0x2000) was advanced to [0x1000,0x2000),
\* with the range [0x2000,0x3000), reported first, behind it
C21_Witness ==
    /\ container.st = "Ok"
    /\ container.reported = <<[start |-> 8192, end |-> 12288],
                              [start |-> 0, end |-> 8192]>>
    /\ container.iova_alignment = 4096
    /\ container.valid_iova_ranges = <<[start |-> 4096, end |-> 8192],
                                       [start |-> 8192, end |-> 12288]>>

(* ------------------------------------------------------------------ *)
(* Capabilities of the IOMMU info                                       *)
(* ------------------------------------------------------------------ *)

\* C22: the walk over the header/next-offset list of capability entries in the
\* kernel's geometry reply is bounded: for every content of the reply it
\* terminates, reading each header once at most, so a reply whose next offsets
\* form a cycle cannot make the geometry query loop forever.
C22_CapWalkTerminates ==
    /\ <>(walk.pc = "missing" \/ (walk.pc = "found" /\ walk.id = "DMA_AVAIL"))
    /\ [](~walk.again)

(* ------------------------------------------------------------------ *)
(* Pointers and permissions                                             *)
(* ------------------------------------------------------------------ *)

\* C24: as_mut_ptr() returns None for every region that is not writeable or not
\* mapped into memory, a memory region created with Read permission and every
\* subregion of it included; as_ptr() and as_mut_ptr() return None for every
\* region that is not memory-mapped.
C24_PointerOnlyWhenAllowed ==
    /\ last.op = "as_mut_ptr" /\ ~can_write(region.permissions) => last.st = "None"
    /\ last.op \in {"as_ptr", "as_mut_ptr"} /\ region.kind # "memory" => last.st = "None"

\* C27: an access that the region's permissions() do not allow never reaches the
\* backing memory: every write_u8 / write_le_u16 / write_le_u32 on a region, or on
\* a subregion of it, whose permissions are Read fails and leaves the bytes
\* unchanged, and every read on a region whose permissions are Write fails.
\* Stated for the regions whose accesses the library performs itself, those backed
\* by memory.
C27_PermissionsEnforced ==
    region.kind = "memory" =>
        /\ ~can_write(region.permissions) =>
               /\ mem = InitMem
               /\ last.op \in WriteOps => last.st # "Ok"
        /\ ~can_read(region.permissions) /\ last.op \in ReadOps => last.st # "Ok"

(* ------------------------------------------------------------------ *)
(* Bit-field registers: a write followed by a read                      *)
(* ------------------------------------------------------------------ *)

\* C25: on a register that keeps what is written to it, whatever it held before,
\* after a successful write(v) through a multi-bit RW bit-range accessor a read()
\* through the same accessor returns v (the field's previous bits are replaced,
\* not OR-ed with the new value); and after a successful write(b) on a single RW
\* bit, read() of that bit returns b.
C25_ReadReturnsWritten ==
    /\ regLog.op = "write_bits" /\ regLog.st = "Ok" =>
           \A r \in bits_read_elem(regLog.field, mem) :
               r.st = "Ok" /\ r.value = regLog.value
    /\ regLog.op = "write_bit" /\ regLog.st = "Ok" =>
           \A r \in bit_read(regDef.bits, reg, 2 ^ regDef.elems[regLog.field].first, mem) :
               r.st = "Ok" /\ r.value = regLog.value

(* ------------------------------------------------------------------ *)
(* Owning regions: the range map() requests                             *)
(* ------------------------------------------------------------------ *)

\* C26: for an owning region with base offset o and length l, one produced by
\* owning_subregion() included, map(range, ..) for any range requests a mapping of
\* the device that lies entirely inside [o, o + l) of the backing region: the
\* range is clamped to the owning region's own length, so the mapped length never
\* exceeds l and no byte outside the owning subregion is exposed.
C26_MapInsideOwningRegion ==
    last.op = "map" /\ last.requested =>
        /\ own.offset <= last.offset
        /\ last.offset + last.n <= own.offset + own.length

(* ------------------------------------------------------------------ *)
(* Accesses at offsets near u64::MAX                                    *)
(* ------------------------------------------------------------------ *)

\* C28: the bounds check is sound for every 64-bit offset, sums being taken modulo
\* 2^64: an access of 1, 2 or 4 bytes whose offset is at or beyond the length of
\* the region it is made on is not performed, also when offset + size wraps to a
\* small value, and a subregion never forwards an access to its root at an address
\* outside [subregion.offset, subregion.offset + subregion.length).
C28_BoundsCheckSound ==
    last.op \in AccessOps =>
        /\ last.n > 0 /\ last.offset >= ViaLen(last.via) =>
               last.st \in {"Err", "Panic"} /\ ~last.oob
        /\ last.via = "view" /\ last.fwd # NoAddr =>
               /\ view.offset <= last.fwd
               /\ last.fwd + last.n <= view.offset + view.length

(* ------------------------------------------------------------------ *)
(* VFIO containers: IOVA 0                                              *)
(* ------------------------------------------------------------------ *)

\* C30: for every kernel reply the geometry query accepts, replies with several
\* ranges starting at 0 or with empty ranges included, no range returned by
\* valid_iova_ranges() contains IOVA 0: every returned range starts at or above
\* the alignment, which is positive.
C30_ZeroNeverValid ==
    GeometryReturned =>
        /\ container.iova_alignment > 0
        /\ \A i \in DOMAIN container.valid_iova_ranges :
              /\ ~(container.valid_iova_ranges[i].start = 0
                   /\ container.valid_iova_ranges[i].end > 0)
              /\ container.valid_iova_ranges[i].start >= container.iova_alignment

(* ------------------------------------------------------------------ *)
(* Field writes of two threads                                          *)
(* ------------------------------------------------------------------ *)

\* what read() of the RW element i of the register returns now
FieldNow(i) ==
    LET e == regDef.elems[i]
        read == from_le_bytes(BytesAt(mem, reg, regDef.bits \div 8))
    IN  IF e.range
        THEN BitAnd(read, bit_range(regDef.bits, e.first, e.last)) \div (2 ^ e.first)
        ELSE Bit(read, e.first)

\* C29: when two threads concurrently write two different RW fields of the same
\* register through the lock-free field accessors, then in every interleaving of
\* their register reads and register writes both fields hold their newly
\* written values once both calls have returned; no field write is lost.
C29_NoFieldWriteLost ==
    (/\ \A t \in ThreadIds : threads # <<>> /\ threads[t].pc = "returned"
                                            /\ threads[t].st = "Ok"
     /\ threads[1].field # threads[2].field)
        => \A t \in ThreadIds : FieldNow(threads[t].field) = threads[t].value

====
